---------------------------- MODULE Spec2Model ----------------------------
(***************************************************************************)
(* State-machine model of the Tulire listing crawler                       *)
(* (src/scraping/scraper.py, class EnhancedPlaywrightScrapingAgent):       *)
(* the navigation controller (safe_navigate_to_page), the pagination       *)
(* walker (extract_listing_urls_with_pagination), the batch persister      *)
(* (save_to_mongodb_batch, clear_existing_data) and the run orchestrator   *)
(* (scrape_all_listings).                                                  *)
(*                                                                         *)
(* The browser, the target site and the document store are the             *)
(* environment: every call into them is a nondeterministic choice among    *)
(* the outcomes the call can have (a value, a timeout, another exception). *)
(* The program is a single coroutine; `pc` is its position.                *)
(***************************************************************************)
EXTENDS Integers, Sequences, FiniteSets, TLC

(***************************************************************************)
(* Bounds of the model (not program constants).                            *)
(***************************************************************************)
\* listing links read from one index page
MaxLinks == 2
\* listings the site offers during a full run
NumUrls == 3
\* largest batch_size an agent is configured with
MaxBatch == 2
\* hash seeds a Python process may draw: 0..MaxHashSeed
MaxHashSeed == 1
\* largest max_retries passed to safe_navigate_to_page on its own
MaxRetriesArg == 4
\* direct calls of save_to_mongodb_batch in the persister specification
MaxCalls == 2
\* words in a text handed to a field extractor
MaxText == 3
\* items extract_section_content returns for a section
MaxSection == 2
\* constructions of MongoDBClient
MaxClients == 5

(***************************************************************************)
(* Program constants.                                                      *)
(***************************************************************************)
\* scraper.py:343
max_pages == 20
\* scraper.py:352
max_wait_attempts == 3
\* scraper.py:284 (default of the parameter max_retries)
default_max_retries == 3
\* scraper.py:291
wait_strategies == <<"networkidle", "load", "domcontentloaded">>
\* scraper.py:392-399
next_selectors == <<"a:has-text(\"Next\")", "a[aria-label=\"Next\"]",
                    ".pagination a:last-child", "a[href*=\"page=\"]:last-child",
                    ".next-page", "[class*=\"next\"]">>
\* listings offered by the site when the walker is exercised on its own:
\* more than the page ceiling can consume one page at a time
WalkSiteUrls == max_pages + 2

VARIABLES
    \* ---- the agent (EnhancedPlaywrightScrapingAgent.__init__) ----
    overwrite_data, save_to_db, mongodb_connected, data_cleared,
    batch_size, max_listings,
    \* hash seed of the running Python process (PYTHONHASHSEED)
    hash_seed,
    \* ---- environment ----
    store,          \* the collection tulire_listings: _id -> document
    site_size,      \* number of listings the site offers
    now,            \* coarse clock (datetime.now())
    \* ---- control ----
    pc, caller,
    session,        \* open browser resources (playwright, browser, context)
    \* ---- safe_navigate_to_page ----
    nav_target, max_retries, attempt, nav_result, wait_strategy, timeout,
    nav_gotos, nav_ok_at, nav_sleeps, nav_fails,
    \* ---- extract_listing_urls_with_pagination ----
    all_urls, page_num, wait_attempts, page_urls, sel, next_button,
    links_read,         \* links of the current page read so far
    pages_processed,    \* index pages processed by this walk
    discovery,          \* listings in the order the site first showed them
    clicks, last_click, \* click() calls issued; the control clicked on this page
    reloads,            \* page.reload() calls on the current page
    saw_repeat,         \* a link pointed at a listing discovered before it
    stop_reason,        \* how the walk left its loop
    walk_result,        \* the list the walk returned
    \* ---- scrape_all_listings ----
    listing_urls, idx, listing, all_listings, current_batch, result,
    exit_path,      \* the way scrape_all_listings was left
    partial,        \* the record scrape_listing_details had built when it raised
    \* ---- history of the run (not program state) ----
    flushes,        \* calls of save_to_mongodb_batch: batch, outcome, writes applied
    passed,         \* records with a title and an address, in processing order
    kept,           \* documents stored at some time before a navigation or
                    \* rendering failure
    calls,          \* number of calls of save_to_mongodb_batch
    persisted,      \* per listing: how its last write was made
    ever,           \* documents stored at some time up to now
    skipped,        \* detail URLs whose navigation or extraction failed
    visited,        \* detail URLs the run navigated to, in order
    clear_calls,    \* calls of clear_existing_data on this agent
    clear_result,   \* what the last call of clear_existing_data returned
    purges,         \* calls of clear_existing_data that returned True
    close_raised,   \* the resource whose close raised in close_browser
    save_requested, \* the save_to_db argument main passed to the constructor
    report,         \* what main told the operator about the run
    summary,        \* the result of generate_summary_report, once emitted
    page_text,      \* the text a field extractor is given, as words
    fields,         \* what the field extractors returned for page_text
    mongo,          \* MongoDBClient: the class attribute and the instances
    \* ---- MongoDBFilter.search_rentals ----
    parsed_message, \* what UserMessageParser.extract returned
    query,          \* what build_query returned
    results         \* the _ids of the documents collection.find returned

agentVars == <<overwrite_data, save_to_db, mongodb_connected, data_cleared,
               batch_size, max_listings, hash_seed>>
envVars   == <<store, site_size, now>>
navVars   == <<nav_target, max_retries, attempt, nav_result, wait_strategy,
               timeout, nav_gotos, nav_ok_at, nav_sleeps, nav_fails>>
walkVars  == <<all_urls, page_num, wait_attempts, page_urls, links_read,
               sel, next_button,
               pages_processed, discovery, clicks, last_click, reloads,
               saw_repeat, stop_reason, walk_result>>
runVars   == <<listing_urls, idx, listing, all_listings, current_batch, result,
               exit_path,
               partial>>
purgeHist == <<clear_calls, clear_result, purges>>
mainVars  == <<save_requested, report, summary>>
queryVars == <<parsed_message, query, results>>
leafVars  == <<page_text, fields, mongo, queryVars>>
histVars  == <<flushes, passed, kept, calls, persisted, ever, skipped,
               visited, purgeHist, close_raised, mainVars, leafVars>>
vars == <<agentVars, envVars, pc, caller, session, navVars, walkVars,
          runVars, histVars>>

(***************************************************************************)
(* Values                                                                  *)
(***************************************************************************)
\* Python's None for Optional fields: the empty tuple; Some(x) is <<x>>
None == <<>>
Some(x) == <<x>>
\* a missing HTML attribute (get_attribute returns None)
NullAttr == "<null>"
NoElement == <<>>

Range(s) == {s[i] : i \in 1..Len(s)}
NoDuplicates(s) == \A i, j \in 1..Len(s) : s[i] = s[j] => i = j
Max(a, b) == IF a >= b THEN a ELSE b
Min(a, b) == IF a <= b THEN a ELSE b

(***************************************************************************)
(* Listing links of an index page.  A link's href is absent, relative      *)
(* ("/listings/detail/<id>") or absolute (base_url + that path).           *)
(***************************************************************************)
NoHref == [form |-> "none", id |-> 0]
Href(form, id) == [form |-> form, id |-> id]

\* urljoin(self.base_url, href): both forms of a listing's href resolve to
\* the same absolute URL, which the model names by the listing's id
urljoin(href) == href.id

\* no message has been parsed
NoQuery == parsed_message = None /\ query = None /\ results = {}

\* MongoDBClient before any construction: the class attribute client is
\* None (mongodb.py:20)
NoClients == [url |-> None, client |-> None, instances |-> <<>>,
              connections |-> 0, tries |-> 0, failures |-> 0]

\* hrefs a link can carry once n listings have been discovered: listings are
\* numbered in discovery order (they are opaque to the program), so a link
\* points at a listing discovered before or at the next undiscovered one
HrefsAfter(n) ==
    {NoHref} \cup
    {Href(f, i) : f \in {"relative", "absolute"}, i \in 1 .. Min(site_size, n + 1)}

(***************************************************************************)
(* extract_listing_urls_with_pagination (scraper.py:339-434)               *)
(***************************************************************************)
\* one round of the loop over the page's links (scraper.py:377-382):
\* all_urls and page_urls after the link's href was read
CollectLinkNoMembership(urls, new_urls, href) ==
    IF href.form # "none"
    THEN [all_urls |-> Append(urls, urljoin(href)),
          page_urls |-> Append(new_urls, urljoin(href))]
    ELSE [all_urls |-> urls, page_urls |-> new_urls]
CollectLink(urls, new_urls, href) ==
    IF href.form # "none" /\ urljoin(href) \notin Range(urls)
    THEN [all_urls |-> Append(urls, urljoin(href)),
          page_urls |-> Append(new_urls, urljoin(href))]
    ELSE [all_urls |-> urls, page_urls |-> new_urls]

\* candidates for the next-page control: an element is its attributes
Element(d, r) ==
    [a \in {"disabled", "aria-disabled"} |-> IF a = "disabled" THEN d ELSE r]
Elements ==
    {Element(d, NullAttr) : d \in {NullAttr, "", "true"}} \cup
    {Element(NullAttr, "true")}

\* element.get_attribute(name)
get_attribute(e, name) == IF name \in DOMAIN e THEN e[name] ELSE NullAttr

\* the test of scraper.py:405-408 on a found control
MarkedDisabled(e) ==
    LET is_disabled == get_attribute(e, "disabled")
        aria_disabled == get_attribute(e, "aria_disabled")
    IN is_disabled = "true" \/ aria_disabled = "true"

\* return all_urls (scraper.py:430 and 434): control goes back to the caller
WalkReturns == pc' = "walk_returned"

\* return all_urls after the loop (scraper.py:429-430) and in the handler
\* of the outer try (scraper.py:432-434)
NothingReturned(urls) == <<>>
ReturnAfterLoop(urls) == urls
ReturnOnException(urls) == urls

\* the walk returns; reason is the way it left the loop
WalkStops(reason) ==
    /\ WalkReturns
    /\ stop_reason' = reason
    /\ walk_result' = IF reason = "exception"
                      THEN Some(ReturnOnException(all_urls))
                      ELSE Some(ReturnAfterLoop(all_urls))

\* the loop condition (scraper.py:346)
CeilingOffByOne(n) == n <= max_pages + 1
WithinCeiling(n) == n <= max_pages

\* while page_num <= max_pages (scraper.py:346-352)
WalkLoop ==
    /\ pc = "walk_loop"
    /\ IF WithinCeiling(page_num)
       THEN /\ pc' = "walk_wait"
            /\ wait_attempts' = 0
            /\ pages_processed' = pages_processed + 1
            /\ reloads' = 0
            /\ last_click' = NoElement
       ELSE /\ WalkStops("ceiling")
            /\ UNCHANGED <<wait_attempts, pages_processed, reloads, last_click>>
    /\ IF pc' = "walk_returned" THEN TRUE
       ELSE UNCHANGED <<stop_reason, walk_result>>
    /\ UNCHANGED <<agentVars, envVars, caller, session, navVars, runVars,
                   histVars, all_urls, page_num, page_urls, links_read, sel,
                   next_button, discovery, clicks, saw_repeat>>

\* if wait_attempts < max_wait_attempts, after the increment
\* (scraper.py:360-361); the while condition of scraper.py:354 is the same
ReloadOnceMore(n) == n <= max_wait_attempts
ReloadAndWaitAgain(n) == n < max_wait_attempts

\* page.wait_for_selector(listing_links) (scraper.py:354-370)
WalkWait ==
    /\ pc = "walk_wait"
    /\ \E outcome \in {"found", "timeout", "error"} :
         CASE outcome = "found" ->
                /\ pc' = "walk_query"
                /\ UNCHANGED <<wait_attempts, kept>>
           [] outcome = "timeout" ->
                /\ wait_attempts' = wait_attempts + 1
                /\ kept' = kept \cup ever
                /\ IF ReloadAndWaitAgain(wait_attempts + 1)
                   THEN pc' = "walk_reload"
                   ELSE WalkStops("no_listings")
           [] outcome = "error" ->
                /\ WalkStops("exception")
                /\ kept' = kept \cup ever
                /\ UNCHANGED wait_attempts
    /\ IF pc' = "walk_returned" THEN TRUE
       ELSE UNCHANGED <<stop_reason, walk_result>>
    /\ UNCHANGED <<agentVars, envVars, caller, session, navVars, runVars,
                   flushes, passed, calls, persisted, ever, skipped, visited, purgeHist, close_raised, mainVars, leafVars, all_urls, page_num, page_urls, links_read,
                   sel, next_button, pages_processed, discovery, clicks,
                   last_click, reloads, saw_repeat>>

\* sleep, page.reload(), sleep between two waits (scraper.py:361-366)
WalkReload ==
    /\ pc = "walk_reload"
    /\ reloads' = reloads + 1
    /\ \E raised \in BOOLEAN :
         IF raised
         THEN WalkStops("exception") /\ kept' = kept \cup ever
         ELSE pc' = "walk_wait" /\ UNCHANGED kept
    /\ IF pc' = "walk_returned" THEN TRUE
       ELSE UNCHANGED <<stop_reason, walk_result>>
    /\ UNCHANGED <<agentVars, envVars, caller, session, navVars, runVars,
                   flushes, passed, calls, persisted, ever, skipped, visited, purgeHist, close_raised, mainVars, leafVars, all_urls, page_num, wait_attempts,
                   page_urls, links_read, sel, next_button, pages_processed,
                   discovery, clicks, last_click, saw_repeat>>

\* page.query_selector_all(listing_links) (scraper.py:372-374)
WalkQuery ==
    /\ pc = "walk_query"
    /\ \E raised \in BOOLEAN :
         IF raised
         THEN WalkStops("exception") /\ kept' = kept \cup ever
                          /\ UNCHANGED <<page_urls, links_read>>
         ELSE /\ pc' = "walk_link"
              /\ page_urls' = <<>>
              /\ links_read' = 0
              /\ UNCHANGED kept
    /\ IF pc' = "walk_returned" THEN TRUE
       ELSE UNCHANGED <<stop_reason, walk_result>>
    /\ UNCHANGED <<agentVars, envVars, caller, session, navVars, runVars,
                   flushes, passed, calls, persisted, ever, skipped, visited, purgeHist, close_raised, mainVars, leafVars, all_urls, page_num, wait_attempts, sel,
                   next_button, pages_processed, discovery, clicks,
                   last_click, reloads, saw_repeat>>

\* if not page_urls (scraper.py:386)
NeverEmpty(new_urls) == FALSE
NoNewUrls(new_urls) == new_urls = <<>>

\* the loop over the links (scraper.py:376-388): the list of links ends, or
\* the next link's href is read
WalkLink ==
    /\ pc = "walk_link"
    /\ \/ \* no further link: if not page_urls: break
          /\ IF NoNewUrls(page_urls)
             THEN WalkStops("no_new_urls") /\ UNCHANGED <<sel, next_button>>
             ELSE /\ pc' = "walk_next"
                  /\ sel' = 1
                  /\ next_button' = NoElement
          /\ links_read' = 0
          /\ UNCHANGED <<all_urls, page_urls, discovery, saw_repeat, kept>>
       \/ \* link.get_attribute('href') raises
          /\ links_read < MaxLinks
          /\ WalkStops("exception")
          /\ kept' = kept \cup ever
          /\ UNCHANGED <<all_urls, page_urls, links_read, discovery,
                         saw_repeat, sel, next_button>>
       \/ \* the href is read
          /\ links_read < MaxLinks
          /\ \E href \in HrefsAfter(Len(discovery)) :
               LET c == CollectLink(all_urls, page_urls, href)
                   shown == href.form # "none"
                   known == shown /\ urljoin(href) \in Range(discovery)
               IN /\ all_urls' = c.all_urls
                  /\ page_urls' = c.page_urls
                  /\ discovery' = IF shown /\ ~known
                                  THEN Append(discovery, urljoin(href))
                                  ELSE discovery
                  /\ saw_repeat' = (saw_repeat \/ known)
          /\ links_read' = links_read + 1
          /\ UNCHANGED <<pc, sel, next_button, kept>>
    /\ IF pc' = "walk_returned" THEN TRUE
       ELSE UNCHANGED <<stop_reason, walk_result>>
    /\ UNCHANGED <<agentVars, envVars, caller, session, navVars, runVars,
                   flushes, passed, calls, persisted, ever, skipped, visited, purgeHist, close_raised, mainVars, leafVars, page_num, wait_attempts,
                   pages_processed, clicks, last_click, reloads>>

\* one round of the loop over next_selectors (scraper.py:401-417)
WalkNext ==
    /\ pc = "walk_next"
    /\ IF sel > Len(next_selectors)
       THEN \* the loop ran out of selectors
            /\ IF next_button = NoElement THEN WalkStops("no_next")
               ELSE pc' = "walk_click"
            /\ UNCHANGED <<sel, next_button>>
       ELSE \/ \* page.query_selector raises
               /\ sel' = sel + 1
               /\ UNCHANGED <<pc, next_button>>
            \/ \* no element matches
               /\ next_button' = NoElement
               /\ sel' = sel + 1
               /\ UNCHANGED pc
            \/ \* an element matches, one of the get_attribute calls raises
               \E e \in Elements :
                 /\ next_button' = e
                 /\ sel' = sel + 1
                 /\ UNCHANGED pc
            \/ \* an element matches and its attributes are read
               \E e \in Elements :
                 IF MarkedDisabled(e)
                 THEN /\ next_button' = NoElement
                      /\ sel' = sel + 1
                      /\ UNCHANGED pc
                 ELSE /\ next_button' = e
                      /\ pc' = "walk_click"
                      /\ UNCHANGED sel
    /\ IF pc' = "walk_returned" THEN TRUE
       ELSE UNCHANGED <<stop_reason, walk_result>>
    /\ UNCHANGED <<agentVars, envVars, caller, session, navVars, runVars,
                   histVars, all_urls, page_num, wait_attempts, page_urls,
                   links_read, pages_processed, discovery, clicks,
                   last_click, reloads, saw_repeat>>

\* next_button.click(), wait_for_load_state, random_delay (scraper.py:419-427)
WalkClick ==
    /\ pc = "walk_click"
    /\ \E outcome \in {"ok", "click_raises", "load_raises"} :
         /\ clicks' = clicks + 1
         /\ last_click' = next_button
         /\ IF outcome = "ok"
            THEN /\ page_num' = page_num + 1
                 /\ pc' = "walk_loop"
                 \* next_button is not read again before scraper.py:391
                 \* resets it
                 /\ next_button' = NoElement
                 /\ UNCHANGED kept
            ELSE /\ WalkStops("click_failed")
                 /\ kept' = kept \cup ever
                 /\ UNCHANGED <<page_num, next_button>>
    /\ IF pc' = "walk_returned" THEN TRUE
       ELSE UNCHANGED <<stop_reason, walk_result>>
    /\ UNCHANGED <<agentVars, envVars, caller, session, navVars, runVars,
                   flushes, passed, calls, persisted, ever, skipped, visited, purgeHist, close_raised, mainVars, leafVars, all_urls, wait_attempts, page_urls,
                   links_read, sel, pages_processed, discovery, reloads,
                   saw_repeat>>

WalkNextStep ==
    \/ WalkLoop \/ WalkWait \/ WalkReload \/ WalkQuery \/ WalkLink
    \/ WalkNext \/ WalkClick

(***************************************************************************)
(* safe_navigate_to_page (scraper.py:284-324)                              *)
(***************************************************************************)
\* what page.title() can return
Titles == {"", "Tulire Realty"}

\* for attempt in range(max_retries) (scraper.py:286)
RangeOneMore(a, m) == a <= m
RangeHasNext(a, m) == a < m

\* if title and len(title) > 0 (scraper.py:304)
TitleFound(title) == title # "" /\ Len(title) > 0

\* wait_strategies[attempt % len(wait_strategies)] (scraper.py:292)
StrategyFor(a) == wait_strategies[(a % Len(wait_strategies)) + 1]

\* 30000 + (attempt * 15000) (scraper.py:295)
TimeoutFromOne(a) == 30000 + ((a + 1) * 15000)
TimeoutFor(a) == 30000 + (a * 15000)

\* return from safe_navigate_to_page: the caller reads nav_result
NavReturns(r) ==
    /\ nav_result' = r
    /\ pc' = "nav_returned"

\* the two except clauses (scraper.py:308-322), which differ in logging only
NavHandleException ==
    /\ nav_fails' = nav_fails + 1
    /\ kept' = kept \cup ever
    /\ IF attempt < max_retries - 1
       THEN /\ pc' = "nav_backoff"
            /\ UNCHANGED nav_result
       ELSE NavReturns(FALSE)

\* the loop header, the choice of strategy and timeout, and page.goto
\* (scraper.py:286-297)
NavAttempt ==
    /\ pc = "nav_attempt"
    /\ IF RangeHasNext(attempt, max_retries)
       THEN /\ wait_strategy' = StrategyFor(attempt)
            /\ timeout' = TimeoutFor(attempt)
            /\ nav_gotos' = nav_gotos + 1
            /\ \E outcome \in {"loaded", "timeout", "error"} :
                 IF outcome = "loaded"
                 THEN /\ pc' = "nav_title"
                      /\ UNCHANGED <<nav_result, nav_fails, kept>>
                 ELSE NavHandleException
       ELSE \* the loop is exhausted: return False (scraper.py:324)
            /\ NavReturns(FALSE)
            /\ UNCHANGED <<wait_strategy, timeout, nav_gotos, nav_fails, kept>>
    /\ UNCHANGED <<agentVars, envVars, caller, session, walkVars, runVars,
                   flushes, passed, calls, persisted, ever, skipped, visited, purgeHist, close_raised, mainVars, leafVars, nav_target, max_retries, attempt,
                   nav_ok_at, nav_sleeps>>

\* asyncio.sleep(2), page.title() and the test of the title
\* (scraper.py:299-306)
NavTitle ==
    /\ pc = "nav_title"
    /\ \/ \* page.title() raises
          /\ NavHandleException
          /\ UNCHANGED <<attempt, nav_ok_at>>
       \/ \E title \in Titles :
            /\ nav_ok_at' = IF title # "" THEN nav_gotos ELSE nav_ok_at
            /\ IF TitleFound(title)
               THEN /\ NavReturns(TRUE)
                    /\ UNCHANGED <<attempt, nav_fails, kept>>
               ELSE \* no exception: the for loop goes on to the next attempt
                    /\ attempt' = attempt + 1
                    /\ nav_fails' = nav_fails + 1
                    /\ kept' = kept \cup ever
                    /\ pc' = "nav_attempt"
                    /\ UNCHANGED nav_result
    /\ UNCHANGED <<agentVars, envVars, caller, session, walkVars, runVars,
                   flushes, passed, calls, persisted, ever, skipped, visited, purgeHist, close_raised, mainVars, leafVars, nav_target, max_retries, wait_strategy,
                   timeout, nav_gotos, nav_sleeps>>

\* asyncio.sleep(5); continue (scraper.py:310-312 and 318-320)
NavBackoff ==
    /\ pc = "nav_backoff"
    /\ nav_sleeps' = nav_sleeps + 1
    /\ attempt' = attempt + 1
    /\ pc' = "nav_attempt"
    /\ UNCHANGED <<agentVars, envVars, caller, session, walkVars, runVars,
                   histVars, nav_target, max_retries, nav_result,
                   wait_strategy, timeout, nav_gotos, nav_ok_at, nav_fails>>

NavNextStep == NavAttempt \/ NavTitle \/ NavBackoff

(***************************************************************************)
(* ListingData (scraper.py:34-57) and the detail pages                     *)
(***************************************************************************)
\* ListingData(listing_url=url, scraped_at=t) after __post_init__
BlankListing(url, t) ==
    [title |-> "", address |-> "", price |-> None, bedroom |-> None,
     bathroom |-> None, description |-> "", rental_terms |-> <<>>,
     amenities |-> [appliances |-> <<>>, utilities_included |-> <<>>,
                    other_amenities |-> <<>>],
     pet_friendly |-> None, listing_url |-> url, scraped_at |-> t]

\* what a detail page can offer to the extractor
PageContents == {"full", "sparse", "no_title", "no_address"}

\* the record scrape_listing_details builds from a page (scraper.py:594-680):
\* a field the page does not offer keeps its default
Extracted(content, url, t) ==
    LET b == BlankListing(url, t)
        named == [b EXCEPT !.title = IF content = "no_title" THEN "" ELSE "Unit",
                           !.address = IF content = "no_address" THEN ""
                                       ELSE "12 Main Street"]
    IN IF content = "full"
       THEN [named EXCEPT !.price = Some(1950), !.bedroom = Some(2),
                          !.bathroom = Some(1), !.description = "Sunny unit",
                          !.rental_terms = [rent |-> "$1,950"],
                          !.amenities = [appliances |-> <<"Stove">>,
                                         utilities_included |-> <<"heat (gas)">>,
                                         other_amenities |-> <<>>],
                          !.pet_friendly = Some("Yes")]
       ELSE named

(***************************************************************************)
(* save_to_mongodb_batch (scraper.py:686-727) and the collection           *)
(***************************************************************************)
\* hash(str) of CPython: a function of the string and of the hash seed the
\* process drew at start-up (PYTHONHASHSEED); the pair stands for the number
StrHash(seed, str) == <<seed, str>>

\* f"tulire_{hash(listing.listing_url)}" (scraper.py:695)
MakeId(seed, url) == <<"tulire_", StrHash(seed, url)>>

\* dataclasses.asdict
asdict(l) == l

\* listing_dict (scraper.py:694-697)
Payload(l, seed, t) ==
    [_id |-> MakeId(seed, l.listing_url), source |-> "tulire_realty",
     last_updated |-> t] @@ asdict(l)

\* the operation queued for one listing (scraper.py:699-714)
BulkOp(l, overwrite, seed, t) ==
    LET listing_dict == Payload(l, seed, t)
    IN [kind |-> IF overwrite THEN "ReplaceOne" ELSE "UpdateOne",
        id |-> listing_dict._id, doc |-> listing_dict]

\* ReplaceOne(filter, doc, upsert=True) and UpdateOne(filter, {'$set': doc},
\* upsert=True) on the collection
ApplyOpStoredWins(coll, op) ==
    IF op.kind = "ReplaceOne" \/ op.id \notin DOMAIN coll
    THEN (op.id :> op.doc) @@ coll
    ELSE (op.id :> (coll[op.id] @@ op.doc)) @@ coll
ApplyOp(coll, op) ==
    IF op.kind = "ReplaceOne" \/ op.id \notin DOMAIN coll
    THEN (op.id :> op.doc) @@ coll
    ELSE (op.id :> (op.doc @@ coll[op.id])) @@ coll

\* the first k operations of ops, applied in order (an ordered bulk write)
RECURSIVE ApplyOps(_, _, _)
ApplyOps(coll, ops, k) ==
    IF k = 0 THEN coll
    ELSE ApplyOp(ApplyOps(coll, ops, k - 1), ops[k])

\* how the last write of each listing was made, after the first k operations
RECURSIVE NoteOps(_, _, _)
NoteOps(per, ops, k) ==
    IF k = 0 THEN per
    ELSE (ops[k].doc.listing_url :> ops[k].kind) @@ NoteOps(per, ops, k - 1)

\* bulk_operations: one operation appended per listing, in the order of
\* the list (scraper.py:692-714)
BulkOperationsReversed(listings, overwrite, seed, t) ==
    [i \in 1..Len(listings) |->
        BulkOp(listings[Len(listings) + 1 - i], overwrite, seed, t)]
bulk_operations(listings, overwrite, seed, t) ==
    [i \in 1..Len(listings) |-> BulkOp(listings[i], overwrite, seed, t)]

\* save_to_mongodb_batch(listings); history is the record of earlier calls
\* that the call is appended to
SaveBatch(listings, history) ==
    /\ calls' = calls + 1
    /\ IF ~mongodb_connected \/ listings = <<>>
       THEN /\ flushes' = Append(history, [batch |-> listings, ok |-> FALSE,
                                           applied |-> 0])
            /\ UNCHANGED <<store, persisted, ever>>
       ELSE LET ops == bulk_operations(listings, overwrite_data, hash_seed, now)
            IN \E ok \in BOOLEAN :
                 \* an ordered bulk write that raises has applied the
                 \* operations before the failing one
                 \E k \in IF ok THEN {Len(ops)} ELSE 0 .. Len(ops) - 1 :
                   /\ store' = ApplyOps(store, ops, k)
                   /\ persisted' = NoteOps(persisted, ops, k)
                   /\ ever' = ever \cup DOMAIN store'
                   /\ flushes' = Append(history, [batch |-> listings,
                                                  ok |-> ok, applied |-> k])

\* the call of save_to_mongodb_batch that a step makes
LastCall == flushes'[Len(flushes')]

(***************************************************************************)
(* The persister on its own: MaxCalls direct calls of                      *)
(* save_to_mongodb_batch on an empty collection, by agents of one or more  *)
(* Python processes.                                                       *)
(***************************************************************************)
\* records a caller can hand over
Records == {Extracted(c, u, now) : c \in {"full", "sparse"}, u \in 1..NumUrls}
Batches == UNION {[1..n -> Records] : n \in 0..MaxBatch}

PersistSave ==
    /\ pc = "persist"
    /\ calls < MaxCalls
    /\ \E listings \in Batches : SaveBatch(listings, <<>>)
    /\ UNCHANGED <<agentVars, site_size, now, pc, caller, session, navVars,
                   walkVars, runVars, passed, kept, skipped, visited,
                   purgeHist, close_raised, mainVars, leafVars>>

\* a new Python process constructs a new agent (scraper.py:62-99); the
\* collection outlives the process
NewProcess ==
    /\ pc = "persist"
    /\ \E seed \in 0..MaxHashSeed, overwrite \in BOOLEAN, connected \in BOOLEAN :
         /\ hash_seed' = seed
         /\ overwrite_data' = overwrite
         /\ save_to_db' = connected
         /\ mongodb_connected' = connected
    /\ data_cleared' = FALSE
    /\ UNCHANGED <<batch_size, max_listings, envVars, pc, caller, session,
                   navVars, walkVars, runVars, histVars>>

PersistNextStep == PersistSave \/ NewProcess

(***************************************************************************)
(* scrape_all_listings (scraper.py:729-802)                                *)
(***************************************************************************)
\* locals of a finished call go out of scope
NavLocalsReset ==
    /\ nav_target' = "none" /\ max_retries' = default_max_retries
    /\ attempt' = 0 /\ nav_result' = FALSE
    /\ wait_strategy' = "none" /\ timeout' = 0
    /\ nav_gotos' = 0 /\ nav_ok_at' = 0 /\ nav_sleeps' = 0 /\ nav_fails' = 0

WalkLocalsReset ==
    /\ all_urls' = <<>> /\ page_num' = 1 /\ wait_attempts' = 0
    /\ page_urls' = <<>> /\ links_read' = 0
    /\ sel' = 1 /\ next_button' = NoElement
    /\ pages_processed' = 0 /\ discovery' = <<>>
    /\ clicks' = 0 /\ last_click' = NoElement /\ reloads' = 0
    /\ saw_repeat' = FALSE /\ stop_reason' = "none" /\ walk_result' = None

\* await self.safe_navigate_to_page(page, url) with the default max_retries
CallNavigate(target) ==
    /\ pc' = "nav_attempt"
    /\ nav_target' = target /\ max_retries' = default_max_retries
    /\ attempt' = 0 /\ nav_result' = FALSE
    /\ wait_strategy' = "none" /\ timeout' = 0
    /\ nav_gotos' = 0 /\ nav_ok_at' = 0 /\ nav_sleeps' = 0 /\ nav_fails' = 0

\* return value; the finally clause runs next
Return(value, path) ==
    /\ result' = Some(value)
    /\ exit_path' = path
    /\ pc' = "closing"

\* an exception that "except Exception" does not catch (KeyboardInterrupt,
\* CancelledError): nothing is returned; the finally clause runs next
Propagate ==
    /\ result' = None
    /\ exit_path' = "interrupt"
    /\ pc' = "closing"

\* initialize_browser (scraper.py:235-268)
BrowserResources == <<"playwright", "browser", "context">>
InitializeBrowser ==
    /\ pc = "run_start"
    /\ \E started \in 0..Len(BrowserResources) :
         /\ session' = session \cup {BrowserResources[i] : i \in 1..started}
         /\ IF started = Len(BrowserResources)
            THEN pc' = "run_purge" /\ UNCHANGED <<result, exit_path>>
            ELSE \/ Return(<<>>, "browser_start")
                 \/ Propagate
    /\ UNCHANGED <<agentVars, envVars, caller, navVars, walkVars,
                   listing_urls, idx, listing, partial, all_listings,
                   current_batch,
                   histVars>>

\* the pre-run purge (scraper.py:734-736) with clear_existing_data
\* (scraper.py:210-233)
ReturnsFalseIfDisconnected(connected, cleared) == ~connected
ReturnsFalseAtOnce(connected, cleared) == ~connected \/ cleared

\* self.data_cleared = True on both successful paths (scraper.py:224, 228)
ClearedNotRecorded == FALSE
ClearedRecorded == TRUE

\* what the collection holds when count_documents or delete_many has raised
\* (scraper.py:216-221): count_documents deletes nothing; a delete_many
\* whose reply is lost has deleted the documents all the same
AfterFailedPurge(coll) == {coll, <<>>}

\* clear_existing_data (scraper.py:210-233)
clear_existing_data ==
    /\ clear_calls' = clear_calls + 1
    /\ IF ReturnsFalseAtOnce(mongodb_connected, data_cleared)
       THEN /\ clear_result' = Some(FALSE)
            /\ UNCHANGED <<store, data_cleared, persisted, purges>>
       ELSE \/ \* count_documents or delete_many raises
               /\ clear_result' = Some(FALSE)
               /\ store' \in AfterFailedPurge(store)
               /\ UNCHANGED <<data_cleared, persisted, purges>>
            \/ \* the collection is empty, or delete_many empties it
               /\ store' = <<>>
               /\ data_cleared' = ClearedRecorded
               /\ persisted' = <<>>
               /\ purges' = purges + 1
               /\ clear_result' = Some(TRUE)

\* if self.overwrite_data and self.save_to_db: clear_existing_data()
\* (scraper.py:734-736)
PurgeIfOverwriting ==
    IF overwrite_data /\ save_to_db
    THEN clear_existing_data
    ELSE UNCHANGED <<store, data_cleared, persisted, purgeHist>>

\* if not await self.clear_existing_data(): warning "continuing anyway"
\* (scraper.py:735-736): the next statement is new_page() either way
AbortUnlessCleared(returned) ==
    IF returned = Some(FALSE) THEN "closing" ELSE "run_page"
AfterPurge(returned) == "run_page"

ClearExistingData ==
    /\ pc = "run_purge"
    /\ PurgeIfOverwriting
    /\ pc' = AfterPurge(clear_result')
    /\ UNCHANGED <<overwrite_data, save_to_db, mongodb_connected, batch_size,
                   max_listings, hash_seed, site_size, now, caller, session,
                   navVars, walkVars, runVars, flushes, passed, kept, calls,
                   ever, skipped, visited, close_raised, mainVars, leafVars>>

\* page = await self.context.new_page(), then the index navigation
NewPage ==
    /\ pc = "run_page"
    /\ \/ CallNavigate("index") /\ UNCHANGED <<result, exit_path>>
       \/ Return(<<>>, "new_page") /\ UNCHANGED navVars
    /\ UNCHANGED <<agentVars, envVars, caller, session, walkVars,
                   listing_urls, idx, listing, partial, all_listings,
                   current_batch,
                   histVars>>

\* scraper.py:743-748
IndexNavigated ==
    /\ pc = "nav_returned" /\ caller = "run" /\ nav_target = "index"
    /\ NavLocalsReset
    /\ IF nav_result
       THEN pc' = "walk_loop" /\ UNCHANGED <<result, exit_path>>
       ELSE Return(<<>>, "index_navigation")
    /\ UNCHANGED <<agentVars, envVars, caller, session, walkVars,
                   listing_urls, idx, listing, partial, all_listings,
                   current_batch,
                   histVars>>

\* if self.max_listings: listing_urls = listing_urls[:self.max_listings]
\* (scraper.py:754-755); None and 0 are falsy
NoLimit(urls, n) == urls
Limit(urls, n) ==
    IF n # None /\ n[1] # 0 THEN SubSeq(urls, 1, Min(n[1], Len(urls)))
    ELSE urls

\* scraper.py:748-761
WalkReturned ==
    /\ pc = "walk_returned" /\ caller = "run"
    /\ WalkLocalsReset
    /\ IF walk_result[1] = <<>>
       THEN Return(<<>>, "no_urls") /\ UNCHANGED listing_urls
       ELSE /\ listing_urls' = Limit(walk_result[1], max_listings)
            /\ pc' = "detail_loop"
            /\ UNCHANGED <<result, exit_path>>
    /\ all_listings' = <<>> /\ current_batch' = <<>> /\ idx' = 0
    /\ UNCHANGED <<agentVars, envVars, caller, session, navVars, listing,
                   partial,
                   histVars>>

\* for i, url in enumerate(listing_urls, 1): scrape_listing_details starts
\* with the navigation (scraper.py:763-766, 586-588)
UrlsLeftButLast(i, urls) == i < Len(urls) - 1
UrlsLeft(i, urls) == i < Len(urls)

DetailLoop ==
    /\ pc = "detail_loop"
    /\ IF UrlsLeft(idx, listing_urls)
       THEN /\ idx' = idx + 1
            /\ CallNavigate("detail")
            /\ visited' = Append(visited, listing_urls[idx + 1])
       ELSE pc' = "final_flush" /\ UNCHANGED <<idx, navVars, visited>>
    /\ UNCHANGED <<agentVars, envVars, caller, session, walkVars,
                   listing_urls, listing, partial, all_listings, current_batch,
                   result, exit_path,
                   flushes, passed, kept, calls, persisted, ever, skipped,
                   purgeHist, close_raised, mainVars, leafVars>>

\* the awaits of scrape_listing_details outside the helpers that catch
\* their own exceptions: page.text_content('body') (scraper.py:598),
\* page.title() for a missing title (scraper.py:603) and the paragraph
\* fallback for the description (scraper.py:641-646)
UnguardedCalls == {"body_text", "page_title", "description_fallback"}

\* the fields assigned before the call (scraper.py:600-636)
FieldsBefore(call) ==
    IF call = "description_fallback"
    THEN {"title", "address", "price", "bedroom", "bathroom"}
    ELSE {}

\* the fallbacks run only when the selectors found nothing
CanRaise(call, found) ==
    /\ call = "page_title" => found.title = ""
    /\ call = "description_fallback" => found.description = ""

\* the local `listing` at the moment the call raises
Partial(content, call, url, t) ==
    [f \in DOMAIN BlankListing(url, t) |->
        IF f \in FieldsBefore(call) THEN Extracted(content, url, t)[f]
        ELSE BlankListing(url, t)[f]]

\* except Exception: return ListingData(listing_url=..., scraped_at=...)
\* (scraper.py:682-684)
OnScrapeException(built) ==
    Some(BlankListing(built.listing_url, built.scraped_at))

\* the rest of scrape_listing_details (scraper.py:588-684)
ScrapeListingDetails ==
    /\ pc = "nav_returned" /\ caller = "run" /\ nav_target = "detail"
    /\ NavLocalsReset
    /\ pc' = "detail_gate"
    /\ IF ~nav_result
       THEN /\ listing' = Some(BlankListing(listing_urls[idx], now))
            /\ skipped' = skipped \cup {listing_urls[idx]}
            /\ partial' = None
            /\ UNCHANGED kept
       ELSE \/ \* a call outside the guarded helpers raises: the handler
               \* returns a new ListingData (scraper.py:682-684)
               \E content \in PageContents, call \in UnguardedCalls :
                 /\ CanRaise(call, Extracted(content, listing_urls[idx], now))
                 /\ listing' = OnScrapeException(
                                  Partial(content, call, listing_urls[idx], now))
                 /\ partial' =
                        Some(Partial(content, call, listing_urls[idx], now))
                 /\ skipped' = skipped \cup {listing_urls[idx]}
                 /\ kept' = kept \cup ever
            \/ \E content \in PageContents :
                 /\ listing' = Some(Extracted(content, listing_urls[idx], now))
                 /\ partial' = None
                 /\ UNCHANGED <<kept, skipped>>
    /\ UNCHANGED <<agentVars, envVars, caller, session, walkVars,
                   listing_urls, idx, all_listings, current_batch, result,
                   exit_path,
                   flushes, passed, calls, persisted, ever, visited,
                   purgeHist, close_raised, mainVars, leafVars>>

\* if listing.title and listing.address (scraper.py:768)
PassesGateEither(l) == l.title # "" \/ l.address # ""
PassesGate(l) == l.title # "" /\ l.address # ""

\* len(current_batch) >= self.batch_size (scraper.py:772)
BatchOverfull(n, size) == n > size
BatchFull(n, size) == n >= size

\* current_batch = [] after the in-loop flush (scraper.py:775)
KeepFailedBatch(batch, ok) == IF ok THEN <<>> ELSE batch
AfterFlush(batch, ok) == <<>>

\* current_batch = [] stands after the `if self.save_to_db:` block, not in
\* it (scraper.py:773-775)
KeptUnlessSaving(batch, saving) == IF saving THEN <<>> ELSE batch
EmptiedEitherWay(batch, saving) == <<>>

\* return all_listings (scraper.py:794): the list of the records that
\* passed the gate, whatever save_to_mongodb_batch returned for them
RECURSIVE WrittenOnly(_, _)
WrittenOnly(listings, calls_made) ==
    IF calls_made = <<>> THEN <<>>
    ELSE WrittenOnly(listings, SubSeq(calls_made, 1, Len(calls_made) - 1))
         \o (IF calls_made[Len(calls_made)].ok
             THEN calls_made[Len(calls_made)].batch ELSE <<>>)
AllListings(listings, calls_made) == listings

\* the else branch of the gate logs a warning and leaves the batch alone
\* (scraper.py:776-777)
DropBatch(batch) == <<>>
BatchAfterReject(batch) == batch

\* scraper.py:768-780
Gate ==
    /\ pc = "detail_gate"
    /\ pc' = "detail_loop"
    /\ LET l == listing[1]
           batch == Append(current_batch, l)
       IN /\ passed' = IF l.title # "" /\ l.address # ""
                       THEN Append(passed, l) ELSE passed
          /\ IF PassesGate(l)
             THEN /\ all_listings' = Append(all_listings, l)
                  /\ IF BatchFull(Len(batch), batch_size)
                     THEN IF save_to_db
                          THEN /\ SaveBatch(batch, flushes)
                               /\ current_batch' = AfterFlush(batch, LastCall.ok)
                          ELSE /\ current_batch' =
                                      EmptiedEitherWay(batch, save_to_db)
                               /\ UNCHANGED <<store, flushes, calls, persisted,
                                              ever>>
                     ELSE /\ current_batch' = batch
                          /\ UNCHANGED <<store, flushes, calls, persisted, ever>>
             ELSE /\ current_batch' = BatchAfterReject(current_batch)
                  /\ UNCHANGED <<all_listings, store, flushes, calls,
                                 persisted, ever>>
    /\ partial' = None
    /\ UNCHANGED <<agentVars, site_size, now, caller, session, navVars,
                   walkVars, listing_urls, idx, listing, result, exit_path,
                   kept,
                   skipped, visited, purgeHist, close_raised, mainVars, leafVars>>

\* the final flush, page.close() and the return (scraper.py:788-794)
FinalFlush ==
    /\ pc = "final_flush"
    /\ IF current_batch # <<>> /\ save_to_db
       THEN SaveBatch(current_batch, flushes)
       ELSE UNCHANGED <<store, flushes, calls, persisted, ever>>
    /\ \/ Return(AllListings(all_listings, flushes'), "completed")
       \/ \* page.close() raises
          Return(<<>>, "page_close")
    /\ UNCHANGED <<agentVars, site_size, now, caller, session, navVars,
                   walkVars, listing_urls, idx, listing, partial, all_listings,
                   current_batch, passed, kept, skipped, visited, purgeHist, close_raised, mainVars, leafVars>>

\* the run is interrupted while it awaits inside the try block
\* (scraper.py:731-794)
RunAwaits == {"run_purge", "run_page", "nav_attempt", "nav_title",
              "nav_backoff", "nav_returned", "walk_loop", "walk_wait",
              "walk_reload", "walk_query", "walk_link", "walk_next",
              "walk_click", "walk_returned", "detail_loop", "detail_gate",
              "final_flush"}
\* what the unwinding writes of the batch in hand: the except and finally
\* clauses hold no call of save_to_mongodb_batch (scraper.py:796-802)
UnwindFlushes(batch) ==
    IF batch # <<>> /\ save_to_db
    THEN SaveBatch(batch, flushes)
    ELSE UNCHANGED <<store, flushes, calls, persisted, ever>>
UnwindWrites(batch) == UNCHANGED <<store, flushes, calls, persisted, ever>>

Interrupt ==
    /\ pc \in RunAwaits
    /\ Propagate
    /\ UnwindWrites(current_batch)
    /\ NavLocalsReset
    /\ WalkLocalsReset
    /\ listing_urls' = <<>> /\ idx' = 0 /\ listing' = None
    /\ all_listings' = <<>> /\ current_batch' = <<>> /\ partial' = None
    /\ UNCHANGED <<agentVars, site_size, now, caller, session, passed, kept,
                   skipped, visited, purgeHist, close_raised, mainVars, leafVars>>

\* finally: close_browser (scraper.py:270-277, 800-802)
CloseOrder == <<"context", "browser", "playwright">>
ClosedBefore(i) == {CloseOrder[j] : j \in 1..(i - 1)}
CloseBrowser ==
    /\ pc = "closing"
    /\ \/ /\ session' = {}
          /\ close_raised' = None
          /\ pc' = IF result = None THEN "run_raised" ELSE "run_returned"
       \/ \* a close() raises and the exception leaves scrape_all_listings
          \E i \in 1..Len(CloseOrder) :
            /\ CloseOrder[i] \in session
            /\ session' = session \ ClosedBefore(i)
            /\ close_raised' = Some(CloseOrder[i])
            /\ pc' = "run_raised"
    /\ UNCHANGED <<agentVars, envVars, caller, navVars, walkVars, runVars,
                   flushes, passed, kept, calls, persisted, ever, skipped,
                   visited, purgeHist, mainVars, leafVars>>

Next ==
    \/ InitializeBrowser \/ ClearExistingData \/ NewPage
    \/ NavNextStep \/ IndexNavigated
    \/ WalkNextStep \/ WalkReturned
    \/ DetailLoop \/ ScrapeListingDetails \/ Gate \/ FinalFlush
    \/ Interrupt \/ CloseBrowser

(***************************************************************************)
(* The walker on its own: one call of extract_listing_urls_with_pagination *)
(* on a freshly loaded index page of a site with WalkSiteUrls listings.    *)
(***************************************************************************)
IdleAgent ==
    /\ overwrite_data = FALSE /\ save_to_db = FALSE
    /\ mongodb_connected = FALSE /\ data_cleared = FALSE
    /\ batch_size = 1 /\ max_listings = None /\ hash_seed = 0
    /\ store = <<>> /\ now = 1
    /\ session = {}
    /\ listing_urls = <<>> /\ idx = 0 /\ listing = None
    /\ all_listings = <<>> /\ current_batch = <<>> /\ result = None
    /\ exit_path = "none"
    /\ partial = None
    /\ flushes = <<>> /\ passed = <<>> /\ kept = {}
    /\ calls = 0 /\ persisted = <<>> /\ ever = {}
    /\ skipped = {} /\ visited = <<>>
    /\ clear_calls = 0 /\ clear_result = None /\ purges = 0
    /\ close_raised = None
    /\ save_requested = save_to_db /\ report = "none" /\ summary = None
    /\ fields = None /\ NoQuery

Idle == IdleAgent /\ page_text = <<>> /\ mongo = NoClients

NavIdle ==
    /\ nav_target = "none" /\ max_retries = default_max_retries
    /\ attempt = 0 /\ nav_result = FALSE
    /\ wait_strategy = "none" /\ timeout = 0
    /\ nav_gotos = 0 /\ nav_ok_at = 0 /\ nav_sleeps = 0 /\ nav_fails = 0

WalkStart ==
    /\ all_urls = <<>> /\ page_num = 1 /\ wait_attempts = 0
    /\ page_urls = <<>> /\ links_read = 0
    /\ sel = 1 /\ next_button = NoElement
    /\ pages_processed = 0 /\ discovery = <<>>
    /\ clicks = 0 /\ last_click = NoElement /\ reloads = 0
    /\ saw_repeat = FALSE /\ stop_reason = "none" /\ walk_result = None

WalkInit ==
    /\ Idle /\ NavIdle /\ WalkStart
    /\ site_size = WalkSiteUrls
    /\ caller = "walk"
    /\ pc = "walk_loop"

WalkSpec == WalkInit /\ [][WalkNextStep]_vars /\ WF_vars(WalkNextStep)

(***************************************************************************)
(* The navigation controller on its own: one call of                       *)
(* safe_navigate_to_page with any max_retries up to MaxRetriesArg.         *)
(***************************************************************************)
NavInit ==
    /\ Idle /\ WalkStart
    /\ site_size = 0
    /\ caller = "nav"
    /\ pc = "nav_attempt"
    /\ nav_target \in {"index", "detail"}
    /\ max_retries \in 0..MaxRetriesArg
    /\ attempt = 0 /\ nav_result = FALSE
    /\ wait_strategy = "none" /\ timeout = 0
    /\ nav_gotos = 0 /\ nav_ok_at = 0 /\ nav_sleeps = 0 /\ nav_fails = 0

NavSpec == NavInit /\ [][NavNextStep]_vars /\ WF_vars(NavNextStep)

PersistInit ==
    /\ overwrite_data \in BOOLEAN
    /\ save_to_db = TRUE /\ mongodb_connected = TRUE
    /\ data_cleared = FALSE
    /\ batch_size = 1 /\ max_listings = None
    /\ hash_seed \in 0..MaxHashSeed
    /\ store = <<>> /\ now = 1 /\ site_size = NumUrls
    /\ session = {}
    /\ listing_urls = <<>> /\ idx = 0 /\ listing = None
    /\ all_listings = <<>> /\ current_batch = <<>> /\ result = None
    /\ exit_path = "none"
    /\ partial = None
    /\ flushes = <<>> /\ passed = <<>> /\ kept = {}
    /\ calls = 0 /\ persisted = <<>> /\ ever = {}
    /\ skipped = {} /\ visited = <<>>
    /\ clear_calls = 0 /\ clear_result = None /\ purges = 0
    /\ close_raised = None
    /\ save_requested = save_to_db /\ report = "none" /\ summary = None
    /\ page_text = <<>> /\ fields = None /\ mongo = NoClients /\ NoQuery
    /\ NavIdle /\ WalkStart
    /\ caller = "persist"
    /\ pc = "persist"

PersistSpec == PersistInit /\ [][PersistNextStep]_vars

(***************************************************************************)
(* The persister on a collection that holds documents with fields of       *)
(* another writer: the payload of an earlier run with a field `notes`      *)
(* added, and a document that has only `listing_url` and `notes`.          *)
(***************************************************************************)
AnnotatedStore(prior_seed) ==
    (MakeId(prior_seed, 1) :>
        (Payload(Extracted("full", 1, 0), prior_seed, 0)
            @@ [notes |-> "viewed"]))
    @@ (MakeId(prior_seed, 2) :>
        [_id |-> MakeId(prior_seed, 2), listing_url |-> 2, notes |-> "viewed"])

MergeInit ==
    /\ overwrite_data \in BOOLEAN
    /\ save_to_db = TRUE /\ mongodb_connected = TRUE
    /\ data_cleared = FALSE
    /\ batch_size = 1 /\ max_listings = None
    /\ hash_seed \in 0..MaxHashSeed
    /\ store = AnnotatedStore(0) /\ now = 1 /\ site_size = NumUrls
    /\ ever = DOMAIN store
    /\ session = {}
    /\ listing_urls = <<>> /\ idx = 0 /\ listing = None
    /\ all_listings = <<>> /\ current_batch = <<>> /\ result = None
    /\ exit_path = "none"
    /\ partial = None
    /\ flushes = <<>> /\ passed = <<>> /\ kept = {}
    /\ calls = 0 /\ persisted = <<>>
    /\ skipped = {} /\ visited = <<>>
    /\ clear_calls = 0 /\ clear_result = None /\ purges = 0
    /\ close_raised = None
    /\ save_requested = save_to_db /\ report = "none" /\ summary = None
    /\ page_text = <<>> /\ fields = None /\ mongo = NoClients /\ NoQuery
    /\ NavIdle /\ WalkStart
    /\ caller = "persist"
    /\ pc = "persist"

\* one call of save_to_mongodb_batch on that collection
MergeSave == calls = 0 /\ PersistSave

MergeSpec == MergeInit /\ [][MergeSave]_vars

(***************************************************************************)
(* The purge on its own: one agent whose purge step (scraper.py:734-736)   *)
(* is run again and again, as by repeated calls of scrape_all_listings,    *)
(* with single records saved in between.                                   *)
(***************************************************************************)
PurgeAgain ==
    /\ pc = "purge"
    /\ clear_calls <= MaxCalls
    /\ PurgeIfOverwriting
    /\ UNCHANGED <<overwrite_data, save_to_db, mongodb_connected, batch_size,
                   max_listings, hash_seed, site_size, now, pc, caller, session,
                   navVars, walkVars, runVars, flushes, passed, kept, calls,
                   ever, skipped, visited, close_raised, mainVars, leafVars>>

SaveOne ==
    /\ pc = "purge"
    /\ calls < MaxCalls
    /\ save_to_db
    /\ \E l \in Records : SaveBatch(<<l>>, <<>>)
    /\ UNCHANGED <<agentVars, site_size, now, pc, caller, session, navVars,
                   walkVars, runVars, passed, kept, skipped, visited,
                   purgeHist, close_raised, mainVars, leafVars>>

PurgeNextStep == PurgeAgain \/ SaveOne

(***************************************************************************)
(* One run of scrape_all_listings by a freshly constructed agent           *)
(* (scraper.py:62-99) against a site of NumUrls listings and a collection  *)
(* that an earlier process may have filled.                                *)
(***************************************************************************)
\* the collection when the run starts: empty, or filled by the run of an
\* earlier process (hash seed prior_seed) that found every listing
PriorStore(prior_seed) ==
    [id \in {MakeId(prior_seed, u) : u \in 1..NumUrls} |->
        Payload(Extracted("full", id[2][2], 0), prior_seed, 0)]

Init ==
    /\ overwrite_data \in BOOLEAN
    /\ save_to_db \in BOOLEAN
    \* save_to_db is switched off when the connection fails (scraper.py:91-99)
    /\ mongodb_connected = save_to_db
    /\ data_cleared = FALSE
    /\ batch_size \in 1..MaxBatch
    /\ max_listings \in {None, Some(1)}
    /\ hash_seed = 0
    /\ site_size = NumUrls
    /\ now = 1
    \* a run that does not save never reads or writes the collection
    /\ store \in IF save_to_db THEN {<<>>, PriorStore(hash_seed)} ELSE {<<>>}
    /\ ever = DOMAIN store
    /\ session = {}
    /\ listing_urls = <<>> /\ idx = 0 /\ listing = None
    /\ all_listings = <<>> /\ current_batch = <<>> /\ result = None
    /\ exit_path = "none"
    /\ partial = None
    /\ flushes = <<>> /\ passed = <<>> /\ kept = {}
    /\ calls = 0 /\ persisted = <<>>
    /\ skipped = {} /\ visited = <<>>
    /\ clear_calls = 0 /\ clear_result = None /\ purges = 0
    /\ close_raised = None
    /\ save_requested = save_to_db /\ report = "none" /\ summary = None
    /\ page_text = <<>> /\ fields = None /\ mongo = NoClients /\ NoQuery
    /\ NavIdle /\ WalkStart
    /\ caller = "run"
    /\ pc = "run_start"

Spec == Init /\ [][Next]_vars /\ WF_vars(Next)

(***************************************************************************)
(* One run by an agent with any cap on the listings: max_listings is None  *)
(* (the default), 0, or a number up to one more than the site offers.      *)
(***************************************************************************)
CapInit ==
    /\ overwrite_data = FALSE
    /\ save_to_db \in BOOLEAN
    /\ mongodb_connected = save_to_db
    /\ data_cleared = FALSE
    /\ batch_size = 1
    /\ max_listings \in {None} \cup {Some(n) : n \in 0..(NumUrls + 1)}
    /\ hash_seed = 0
    /\ site_size = NumUrls
    /\ now = 1
    /\ store = <<>>
    /\ ever = DOMAIN store
    /\ session = {}
    /\ listing_urls = <<>> /\ idx = 0 /\ listing = None
    /\ all_listings = <<>> /\ current_batch = <<>> /\ result = None
    /\ exit_path = "none"
    /\ partial = None
    /\ flushes = <<>> /\ passed = <<>> /\ kept = {}
    /\ calls = 0 /\ persisted = <<>>
    /\ skipped = {} /\ visited = <<>>
    /\ clear_calls = 0 /\ clear_result = None /\ purges = 0
    /\ close_raised = None
    /\ save_requested = save_to_db /\ report = "none" /\ summary = None
    /\ page_text = <<>> /\ fields = None /\ mongo = NoClients /\ NoQuery
    /\ NavIdle /\ WalkStart
    /\ caller = "run"
    /\ pc = "run_start"

CapSpec == CapInit /\ [][Next]_vars

(***************************************************************************)
(* main (scraper.py:877-1058): it constructs the agent, awaits             *)
(* scrape_all_listings and reports to the operator.                        *)
(***************************************************************************)
\* generate_summary_report (scraper.py:827-874); of the report only the
\* count and the mode are kept
generate_summary_report(listings, overwrite) ==
    IF listings = <<>> THEN <<>>
    ELSE <<[total_listings |-> Len(listings),
            scrape_mode |-> IF overwrite THEN "OVERWRITE" ELSE "UPDATE"]>>

\* the agent main constructs (scraper.py:62-99, 913-920): when saving is
\* requested and MongoDBClient() or count_documents raises, the constructor
\* prints the error and sets save_to_db to False
MainInit ==
    /\ overwrite_data \in BOOLEAN
    /\ save_requested \in BOOLEAN
    /\ \E connects \in BOOLEAN :
         /\ mongodb_connected = (save_requested /\ connects)
         /\ save_to_db = (save_requested /\ connects)
    /\ data_cleared = FALSE
    /\ batch_size \in 1..MaxBatch
    /\ max_listings \in {None, Some(1)}
    /\ hash_seed = 0
    /\ site_size = NumUrls
    /\ now = 1
    /\ store \in IF save_to_db THEN {<<>>, PriorStore(hash_seed)} ELSE {<<>>}
    /\ ever = DOMAIN store
    /\ session = {}
    /\ listing_urls = <<>> /\ idx = 0 /\ listing = None
    /\ all_listings = <<>> /\ current_batch = <<>> /\ result = None
    /\ exit_path = "none"
    /\ partial = None
    /\ flushes = <<>> /\ passed = <<>> /\ kept = {}
    /\ calls = 0 /\ persisted = <<>>
    /\ skipped = {} /\ visited = <<>>
    /\ clear_calls = 0 /\ clear_result = None /\ purges = 0
    /\ close_raised = None
    /\ report = "none" /\ summary = None
    /\ page_text = <<>> /\ fields = None /\ mongo = NoClients /\ NoQuery
    /\ NavIdle /\ WalkStart
    /\ caller = "run"
    /\ pc = "run_start"

\* main after the await of scrape_all_listings (scraper.py:927-1058)
MainReports ==
    /\ pc \in {"run_returned", "run_raised"}
    /\ pc' = "main_done"
    /\ IF pc = "run_returned"
       THEN IF result[1] = <<>>
            THEN \* "No listings found. Check the log file for details"
                 report' = "no_listings" /\ summary' = None
            ELSE /\ report' = "completed"
                 /\ summary' = Some(generate_summary_report(result[1],
                                                            overwrite_data))
       ELSE /\ summary' = None
            /\ IF close_raised # None
               THEN \* except Exception: "Fatal Error"
                    report' = "fatal_error"
               ELSE \/ \* except KeyboardInterrupt
                       report' = "interrupted"
                    \/ \* a CancelledError passes both except clauses
                       report' = "propagated"
    /\ UNCHANGED <<agentVars, envVars, caller, session, navVars, walkVars,
                   runVars, flushes, passed, kept, calls, persisted, ever,
                   skipped, visited, purgeHist, close_raised, save_requested,
                   leafVars>>

MainNext == Next \/ MainReports

MainSpec == MainInit /\ [][MainNext]_vars /\ WF_vars(MainNext)

PurgeInit ==
    /\ overwrite_data \in BOOLEAN
    /\ save_to_db \in BOOLEAN
    /\ mongodb_connected = save_to_db
    /\ data_cleared = FALSE
    /\ batch_size = 1
    /\ max_listings = None
    /\ hash_seed \in 0..MaxHashSeed
    /\ site_size = NumUrls
    /\ now = 1
    /\ store \in {<<>>} \cup {PriorStore(seed) : seed \in 0..MaxHashSeed}
    /\ ever = DOMAIN store
    /\ session = {}
    /\ listing_urls = <<>> /\ idx = 0 /\ listing = None
    /\ all_listings = <<>> /\ current_batch = <<>> /\ result = None
    /\ exit_path = "none"
    /\ partial = None
    /\ flushes = <<>> /\ passed = <<>> /\ kept = {}
    /\ calls = 0 /\ persisted = <<>>
    /\ skipped = {} /\ visited = <<>>
    /\ clear_calls = 0 /\ clear_result = None /\ purges = 0
    /\ close_raised = None
    /\ save_requested = save_to_db /\ report = "none" /\ summary = None
    /\ page_text = <<>> /\ fields = None /\ mongo = NoClients /\ NoQuery
    /\ NavIdle /\ WalkStart
    /\ caller = "run"
    /\ pc = "purge"

PurgeSpec == PurgeInit /\ [][PurgeNextStep]_vars

(***************************************************************************)
(* The field extractors on their own (scraper.py:447-483, 544-582,         *)
(* 650-675).  A text is a sequence of words; a phrase occurs in a text     *)
(* when its words occur in it one after the other.  Matches that run       *)
(* across word boundaries are left out.                                    *)
(***************************************************************************)
Words == {"Studio", "STUDIO", "2", "bed", "bath", "No", "pets", "allowed",
          "heat (gas)", "stove"}
Texts == UNION {[1..n -> Words] : n \in 0..MaxText}

\* str.lower, word by word
LowerWord(w) ==
    CASE w \in {"Studio", "STUDIO"} -> "studio"
      [] w = "No" -> "no"
      [] OTHER -> w
lower(text) == [i \in 1..Len(text) |-> LowerWord(text[i])]

\* str.title, word by word
TitleWord(w) ==
    CASE w = "studio" -> "Studio"
      [] w = "bed" -> "Bed"
      [] w = "bath" -> "Bath"
      [] w = "no" -> "No"
      [] w = "pets" -> "Pets"
      [] w = "allowed" -> "Allowed"
      [] w = "heat (gas)" -> "Heat (Gas)"
      [] w = "stove" -> "Stove"
      [] w = "s" -> "S"
      [] OTHER -> w
title(text) == [i \in 1..Len(text) |-> TitleWord(text[i])]

\* the strings the patterns and keyword tests look for that a word of Words
\* begins with, once lowered
Beginnings(w) ==
    CASE w = "studio" -> {"studio"}
      [] w = "bed" -> {"bed"}
      [] w = "bath" -> {"ba", "bath"}
      [] w = "pets" -> {"pet", "pets"}
      [] w = "stove" -> {"stove"}
      [] OTHER -> {w}

\* `word in text` for a single word
WordIn(word, text) == \E i \in 1..Len(text) : word \in Beginnings(text[i])

\* `phrase in text` for a phrase of several words
PhraseIn(phrase, text) ==
    \E i \in 0..(Len(text) - Len(phrase)) :
        SubSeq(text, i + 1, i + Len(phrase)) = phrase

\* int(match.group(1)) and float(match.group(1)) of a digit word
Digits == {"2"}
int(w) == IF w = "2" THEN 2 ELSE 0
float(w) == [whole |-> int(w), tenths |-> 0]

\* re.search(r'(\d+)\s*(?:a|b|...)', text): the digits of the leftmost place
\* where digits are followed by one of the alternatives
Search(alternatives, text) ==
    LET hits == {i \in 1..(Len(text) - 1) :
                    /\ text[i] \in Digits
                    /\ Beginnings(text[i + 1]) \cap alternatives # {}}
    IN IF hits = {} THEN None
       ELSE Some(text[CHOOSE i \in hits : \A j \in hits : i <= j])

\* the first pattern of the list that matches anywhere in the text
RECURSIVE FirstMatch(_, _, _)
FirstMatch(patterns, text, k) ==
    IF k > Len(patterns) THEN None
    ELSE IF Search(patterns[k], text) # None THEN Search(patterns[k], text)
    ELSE FirstMatch(patterns, text, k + 1)

bed_patterns == <<{"bd", "bedroom", "br"}, {"bed"}, {"bd"}>>
bath_patterns == <<{"ba", "bath", "bathroom"}, {"bath"}, {"ba"}>>

\* if match and result['bedroom'] is None (scraper.py:467)
AssignsAnyway(bedroom) == TRUE
AssignsIfUnset(bedroom) == bedroom = None

\* extract_bed_bath_from_text (scraper.py:447-483)
extract_bed_bath_from_text(text) ==
    IF text = <<>> THEN [bedroom |-> None, bathroom |-> None]
    ELSE LET text_lower == lower(text)
             studio == IF WordIn("studio", text_lower) THEN Some(0) ELSE None
             bed == FirstMatch(bed_patterns, text_lower, 1)
             bath == FirstMatch(bath_patterns, text_lower, 1)
         IN [bedroom |-> IF bed # None /\ AssignsIfUnset(studio)
                         THEN Some(int(bed[1])) ELSE studio,
             bathroom |-> IF bath # None THEN Some(float(bath[1])) ELSE None]

pet_positive == << <<"pets", "allowed">>, <<"pet", "friendly">>,
                   <<"pet-friendly">>, <<"pets", "welcome">>,
                   <<"pets", "ok">>, <<"pets:", "yes">> >>
pet_negative == << <<"no", "pets">>, <<"pets", "not", "allowed">>,
                   <<"no", "pets", "allowed">>, <<"pets:", "no">> >>

\* re.search(r'pet[s]?[:\s]*([^<\n\r.]{1,50})', text): what follows the
\* first "pet"; when nothing follows "pets", the group takes the "s"
PetMatch(text) ==
    LET i == CHOOSE k \in 1..Len(text) :
                /\ "pet" \in Beginnings(text[k])
                /\ \A j \in 1..(k - 1) : "pet" \notin Beginnings(text[j])
    IN IF i < Len(text) THEN Some(SubSeq(text, i + 1, Len(text)))
       ELSE IF text[i] = "pets" THEN Some(<<"s">>)
       ELSE None

\* check_pet_friendly once page.text_content('body') has returned
\* (scraper.py:548-577)
check_pet_friendly(text) ==
    LET page_text_lower == lower(text)
    IN IF \E k \in 1..Len(pet_positive) :
             PhraseIn(pet_positive[k], page_text_lower)
       THEN Some("Yes")
       ELSE IF \E k \in 1..Len(pet_negative) :
                  PhraseIn(pet_negative[k], page_text_lower)
       THEN Some("No")
       ELSE IF WordIn("pet", page_text_lower)
                 /\ PetMatch(page_text_lower) # None
       THEN Some(title(PetMatch(page_text_lower)[1]))
       ELSE None

\* what extract_section_content can return for a section: the texts of the
\* items under its headers, possibly with repeats (scraper.py:486-509)
SectionItems == {"Stove", "Heat (gas)"}
SectionContents == UNION {[1..n -> SectionItems] : n \in 0..MaxSection}

\* re.findall(r'heat\s*\([^)]*\)', page_text, re.IGNORECASE): every match,
\* as written in the text (scraper.py:653-661)
RECURSIVE findall(_, _)
findall(pattern, text) ==
    IF text = <<>> THEN <<>>
    ELSE (IF LowerWord(text[1]) = pattern THEN <<text[1]>> ELSE <<>>)
         \o findall(pattern, Tail(text))

\* the keyword scan of the appliances (scraper.py:664-668)
appliance_keywords == <<"refrigerator", "stove", "dishwasher", "microwave",
                        "washer", "dryer">>
RECURSIVE KeywordScan(_, _)
KeywordScan(text_lower, k) ==
    IF k > Len(appliance_keywords) THEN <<>>
    ELSE (IF WordIn(appliance_keywords[k], text_lower)
          THEN <<TitleWord(appliance_keywords[k])>> ELSE <<>>)
         \o KeywordScan(text_lower, k + 1)

\* list(set(items)): the distinct items, in an order Python does not fix
ListAsIs(items) == {items}
ListOfSet(items) ==
    {l \in [1..Cardinality(Range(items)) -> Range(items)] :
        Range(l) = Range(items)}

\* the amenities of a ListingData built without them (scraper.py:49-57)
post_init_amenities ==
    [appliances |-> <<>>, utilities_included |-> <<>>, other_amenities |-> <<>>]

\* the listing is built, then its bedroom and bathroom are set
\* (scraper.py:594-597, 633-635)
ExtractBedBath ==
    /\ pc = "extract_bed_bath"
    /\ pc' = "extract_amenities"
    /\ fields' = Some([bed_bath |-> extract_bed_bath_from_text(page_text),
                       amenities |-> post_init_amenities])
    /\ UNCHANGED <<agentVars, envVars, caller, session, navVars, walkVars,
                   runVars, flushes, passed, kept, calls, persisted, ever,
                   skipped, visited, purgeHist, close_raised, mainVars,
                   page_text, mongo, queryVars>>

\* the amenities of scrape_listing_details (scraper.py:650-675)
ExtractAmenities ==
    /\ pc = "extract_amenities"
    /\ pc' = "extract_pet"
    /\ \E section_utilities \in SectionContents,
          section_appliances \in SectionContents :
         LET utilities == IF section_utilities = <<>> /\ page_text # <<>>
                          THEN findall("heat (gas)", page_text)
                          ELSE section_utilities
             appliances == IF section_appliances = <<>> /\ page_text # <<>>
                           THEN KeywordScan(lower(page_text), 1)
                           ELSE section_appliances
         IN \E a \in ListOfSet(appliances), u \in ListOfSet(utilities) :
              fields' = Some([bed_bath |-> fields[1].bed_bath,
                              amenities |-> [appliances |-> a,
                                             utilities_included |-> u,
                                             other_amenities |-> <<>>]])
    /\ UNCHANGED <<agentVars, envVars, caller, session, navVars, walkVars,
                   runVars, flushes, passed, kept, calls, persisted, ever,
                   skipped, visited, purgeHist, close_raised, mainVars,
                   page_text, mongo, queryVars>>

CheckPetFriendly ==
    /\ pc = "extract_pet"
    /\ pc' = "extracted"
    /\ fields' = Some([bed_bath |-> fields[1].bed_bath,
                       amenities |-> fields[1].amenities,
                       pet_friendly |-> check_pet_friendly(page_text)])
    /\ UNCHANGED <<agentVars, envVars, caller, session, navVars, walkVars,
                   runVars, flushes, passed, kept, calls, persisted, ever,
                   skipped, visited, purgeHist, close_raised, mainVars,
                   page_text, mongo, queryVars>>

ExtractNext == ExtractBedBath \/ ExtractAmenities \/ CheckPetFriendly

ExtractInit ==
    /\ IdleAgent /\ NavIdle /\ WalkStart
    /\ page_text \in Texts
    /\ mongo = NoClients
    /\ site_size = NumUrls
    /\ caller = "run"
    /\ pc = "extract_bed_bath"

ExtractSpec == ExtractInit /\ [][ExtractNext]_vars

(***************************************************************************)
(* MongoDBClient (mongodb.py:15-38).  mongo.url is MONGODB_URL, read from   *)
(* the environment when the module is imported; mongo.client is the class  *)
(* attribute; mongo.instances are the objects constructed so far, each     *)
(* with its own client and database_name attributes.  A MongoClient is     *)
(* named by the number of MongoClients created up to it.                   *)
(* mongo.connections counts the MongoClients created, mongo.tries the      *)
(* calls of pymongo.MongoClient, mongo.failures the constructions that     *)
(* raised.                                                                 *)
(***************************************************************************)
MONGODB_URLS == {None, Some("mongodb://")}

\* the names a caller passes; client[""] raises InvalidName
DatabaseNames == {"rental_database", "tulire", ""}

\* if MongoDBClient.client is None (mongodb.py:25)
AlwaysNone(client) == TRUE
ClientIsNone(client) == client = None

\* self.client = MongoDBClient.client; self.database = self.client[name];
\* self.database_name = name (mongodb.py:32-35)
UseSharedClient(shared, database_name) ==
    IF database_name = ""
    THEN mongo' = [shared EXCEPT !.failures = @ + 1]
    ELSE mongo' = [shared EXCEPT
                     !.instances = Append(@, [client |-> shared.client[1],
                                              database_name |-> database_name])]

\* MongoDBClient(database_name) (mongodb.py:22-38)
MongoDBClient(database_name) ==
    /\ pc = "clients"
    /\ Len(mongo.instances) + mongo.failures < MaxClients
    /\ IF ClientIsNone(mongo.client)
       THEN IF mongo.url = None
            THEN mongo' = [mongo EXCEPT !.failures = @ + 1]
            ELSE \/ mongo' = [mongo EXCEPT !.tries = @ + 1,
                                           !.failures = @ + 1]
                 \/ UseSharedClient(
                        [mongo EXCEPT !.tries = @ + 1,
                                      !.connections = @ + 1,
                                      !.client = Some(mongo.connections + 1)],
                        database_name)
       ELSE UseSharedClient(mongo, database_name)
    /\ UNCHANGED <<agentVars, envVars, caller, session, navVars, walkVars,
                   runVars, flushes, passed, kept, calls, persisted, ever,
                   skipped, visited, purgeHist, close_raised, mainVars,
                   page_text, fields, queryVars, pc>>

ClientNext == \E database_name \in DatabaseNames : MongoDBClient(database_name)

ClientInit ==
    /\ IdleAgent /\ NavIdle /\ WalkStart
    /\ page_text = <<>>
    /\ \E url \in MONGODB_URLS : mongo = [NoClients EXCEPT !.url = url]
    /\ site_size = NumUrls
    /\ caller = "run"
    /\ pc = "clients"

ClientSpec == ClientInit /\ [][ClientNext]_vars

(***************************************************************************)
(* MongoDBFilter.search_rentals (retrieval/mgdb_filter.py:19-57) on the    *)
(* collection the persister writes: rental_database.tulire_listings.       *)
(* RentalQueryExecutor (query_executor.py:21-60) has the same build_query. *)
(* The parser's answer is a dict of location and price; a price is a str   *)
(* or an int.                                                              *)
(***************************************************************************)
PriceValue(type, str, num) == [type |-> type, str |-> str, num |-> num]
PriceValues ==
    {PriceValue("str", t, 0) : t \in {"", "0", "1500", "2500", "20k"}} \cup
    {PriceValue("int", "", n) : n \in {0, 1500, 2500}}
Locations == {"", "Unit", "Austin"}
ParsedMessages == [location : Locations, price : PriceValues]

\* the truth value of a str or an int
Truthy(v) == IF v.type = "str" THEN v.str # "" ELSE v.num # 0

\* int(v): the number, or None when int raises ValueError
IntOf(v) ==
    IF v.type = "int" THEN Some(v.num)
    ELSE CASE v.str = "0" -> Some(0)
           [] v.str = "1500" -> Some(1500)
           [] v.str = "2500" -> Some(2500)
           [] OTHER -> None

\* the field the numeric bound is put on (mgdb_filter.py:34)
PersistedPriceField == "price"
BoundField == "rent_price"

\* build_query (mgdb_filter.py:19-38): $text on the location, $lte on the
\* bound field; a price that int() rejects is reported and left out
build_query(message) ==
    [text |-> IF message.location # "" THEN Some(message.location) ELSE None,
     field |-> BoundField,
     lte |-> IF Truthy(message.price) THEN IntOf(message.price) ELSE None]

\* the number a document holds under a field, if any
NumberAt(doc, field) ==
    IF field \in DOMAIN doc /\ field \in {"price", "rent_price"}
    THEN doc[field] ELSE None

\* whether collection.find(filter) returns the document: $text against the
\* text index on title, $lte against a number stored under the field
Matches(doc, filter) ==
    /\ filter.text # None => doc.title = filter.text[1]
    /\ filter.lte # None =>
         /\ NumberAt(doc, filter.field) # None
         /\ NumberAt(doc, filter.field)[1] <= filter.lte[1]

\* parsed = parser.extract(user_message) (mgdb_filter.py:44-45)
ParseMessage ==
    /\ pc = "query_parse"
    /\ pc' = "query_build"
    /\ \E message \in ParsedMessages : parsed_message' = Some(message)
    /\ UNCHANGED <<agentVars, envVars, caller, session, navVars, walkVars,
                   runVars, flushes, passed, kept, calls, persisted, ever,
                   skipped, visited, purgeHist, close_raised, mainVars,
                   page_text, fields, mongo, query, results>>

\* query = self.build_query(parsed) (mgdb_filter.py:49)
BuildQuery ==
    /\ pc = "query_build"
    /\ pc' = "query_find"
    /\ query' = Some(build_query(parsed_message[1]))
    /\ UNCHANGED <<agentVars, envVars, caller, session, navVars, walkVars,
                   runVars, flushes, passed, kept, calls, persisted, ever,
                   skipped, visited, purgeHist, close_raised, mainVars,
                   page_text, fields, mongo, parsed_message, results>>

\* results = list(self.collection.find(query)) (mgdb_filter.py:52)
Find ==
    /\ pc = "query_find"
    /\ pc' = "query_done"
    /\ results' = {id \in DOMAIN store : Matches(store[id], query[1])}
    /\ UNCHANGED <<agentVars, envVars, caller, session, navVars, walkVars,
                   runVars, flushes, passed, kept, calls, persisted, ever,
                   skipped, visited, purgeHist, close_raised, mainVars,
                   page_text, fields, mongo, parsed_message, query>>

QueryNext == ParseMessage \/ BuildQuery \/ Find

\* the collections the persister leaves after one batch, in either mode
PersisterStores ==
    {ApplyOps(<<>>, bulk_operations(listings, overwrite, 0, now),
              Len(listings)) :
        listings \in Batches, overwrite \in BOOLEAN}

QueryInit ==
    /\ overwrite_data = FALSE
    /\ save_to_db = FALSE /\ mongodb_connected = FALSE
    /\ data_cleared = FALSE
    /\ batch_size = 1 /\ max_listings = None
    /\ hash_seed = 0
    /\ now = 1 /\ site_size = NumUrls
    /\ store \in PersisterStores
    /\ ever = DOMAIN store
    /\ session = {}
    /\ listing_urls = <<>> /\ idx = 0 /\ listing = None
    /\ all_listings = <<>> /\ current_batch = <<>> /\ result = None
    /\ exit_path = "none"
    /\ partial = None
    /\ flushes = <<>> /\ passed = <<>> /\ kept = {}
    /\ calls = 0 /\ persisted = <<>>
    /\ skipped = {} /\ visited = <<>>
    /\ clear_calls = 0 /\ clear_result = None /\ purges = 0
    /\ close_raised = None
    /\ save_requested = save_to_db /\ report = "none" /\ summary = None
    /\ page_text = <<>> /\ fields = None /\ mongo = NoClients /\ NoQuery
    /\ NavIdle /\ WalkStart
    /\ caller = "query"
    /\ pc = "query_parse"

QuerySpec == QueryInit /\ [][QueryNext]_vars

(***************************************************************************)
(* Claims about the pagination walker (checked under WalkSpec)             *)
(***************************************************************************)
\* C1: whatever links the index pages show (the same listing on two pages,
\* twice on one page, as a relative and as an absolute href), the list the
\* walker builds and returns holds each absolute URL at most once, in the
\* order in which the site first showed them.
C1_DedupFirstSeen ==
    /\ NoDuplicates(all_urls)
    /\ all_urls = discovery

\* C1 witness: the walk has returned two or more URLs after reading a link
\* to a listing it had already discovered
C1_Witness ==
    /\ pc = "walk_returned"
    /\ saw_repeat
    /\ Len(all_urls) >= 2

\* C2: the walk always terminates, and it never processes more than
\* max_pages index pages, even when every page has new listings and an
\* enabled next control.
C2_TerminatesWithinCeiling ==
    /\ [](pages_processed <= max_pages)
    /\ <>(pc = "walk_returned")

\* C2 witness: the walk was stopped by the ceiling: max_pages pages
\* processed, each followed by a successful click, and listings remain
C2_Witness ==
    /\ pc = "walk_returned"
    /\ pages_processed = max_pages
    /\ page_num = max_pages + 1
    /\ clicks = max_pages
    /\ Len(all_urls) < site_size

(***************************************************************************)
(* Claims about the navigation controller (checked under NavSpec)          *)
(***************************************************************************)
\* C10: safe_navigate_to_page calls page.goto at most max_retries times; at
\* the first attempt whose load completes with a non-empty title it returns
\* True at once, so no attempt follows a success; and when it returns
\* without such an attempt it returns False, after max_retries attempts
\* that all failed (timeout, other exception or empty title).
C10_BoundedAttempts ==
    /\ nav_gotos <= max_retries
    /\ nav_ok_at # 0 =>
          /\ pc = "nav_returned"
          /\ nav_result = TRUE
          /\ nav_gotos = nav_ok_at
    /\ (pc = "nav_returned" /\ nav_ok_at = 0) =>
          /\ nav_result = FALSE
          /\ nav_gotos = max_retries
          /\ nav_fails = max_retries

\* C10 witness: with the default of three attempts, the third attempt
\* succeeds after two failures and the call returns True
C10_Witness ==
    /\ pc = "nav_returned"
    /\ max_retries = default_max_retries
    /\ nav_result = TRUE
    /\ nav_gotos = max_retries
    /\ nav_fails = max_retries - 1
\* C11: every attempt of safe_navigate_to_page after the first is preceded
\* by a backoff sleep, whatever made the attempt before it fail (a timeout,
\* another exception, or an empty page title): the gotos issued never
\* exceed the backoff sleeps by more than one.
C11_BackoffBeforeEveryRetry ==
    nav_gotos <= nav_sleeps + 1

\* C12: the attempt with index i (from 0) navigates with the strategy at
\* position i mod 3 of (networkidle, load, domcontentloaded) and a timeout
\* of 30000 + 15000 * i ms: 30 s, 45 s and 60 s for the three default
\* attempts, each with another strategy.
C12_StrategyAndTimeout ==
    nav_gotos >= 1 =>
        LET i == nav_gotos - 1
        IN /\ i % 3 = 0 => wait_strategy = "networkidle"
           /\ i % 3 = 1 => wait_strategy = "load"
           /\ i % 3 = 2 => wait_strategy = "domcontentloaded"
           /\ timeout = 30000 + 15000 * i
           /\ i = 0 => timeout = 30000
           /\ i = 1 => timeout = 45000
           /\ i = 2 => timeout = 60000

\* the third of three attempts has been issued
C12_Witness ==
    /\ max_retries = default_max_retries
    /\ nav_gotos = 3
    /\ wait_strategy = "domcontentloaded"
    /\ timeout = 60000

\* C14: the walk stops at the first page that contributes no new URL (no
\* link, or only links to listings it already has): it leaves the page
\* without looking for or clicking a next control and returns the URLs it
\* had; a click is only ever issued from a page that contributed a URL.
C14_StopsOnZeroNew ==
    [][/\ (pc = "walk_link" /\ pc' # "walk_link" /\ page_urls = <<>>) =>
            /\ pc' = "walk_returned"
            /\ all_urls' = all_urls
            /\ clicks' = clicks
       /\ pc' \in {"walk_next", "walk_click"} => page_urls' # <<>>
       /\ clicks' # clicks => page_urls # <<>>
      ]_vars

\* three pages, the second repeating a listing and the third adding none:
\* the walk stopped on the third page with the three listings in order
C14_Witness ==
    /\ pc = "walk_returned"
    /\ stop_reason = "no_new_urls"
    /\ pages_processed = 3
    /\ all_urls = <<1, 2, 3>>
    /\ page_urls = <<>>
    /\ saw_repeat
    /\ clicks = 2
    /\ last_click = NoElement

\* C15: a next-page control that is absent or marked disabled (disabled or
\* aria-disabled set to true) is never clicked: the walk clicks only a
\* control that is present and not marked disabled.
C15_ClicksOnlyEnabledControl ==
    last_click # NoElement =>
        /\ last_click["disabled"] # "true"
        /\ last_click["aria-disabled"] # "true"

C17_ThreeWaitsTwoReloads ==
    /\ wait_attempts <= 3
    /\ reloads <= 2
    /\ pc = "walk_wait" => (reloads = wait_attempts /\ wait_attempts < 3)
    /\ pc = "walk_reload" => (reloads = wait_attempts - 1 /\ wait_attempts < 3)
    /\ wait_attempts = 3 =>
         /\ pc = "walk_returned"
         /\ stop_reason = "no_listings"
         /\ reloads = 2
         /\ walk_result = Some(all_urls)
    /\ stop_reason = "no_listings" => wait_attempts = 3

\* the waits ran out on a later page, after URLs were collected
C17_Witness ==
    /\ pc = "walk_returned"
    /\ stop_reason = "no_listings"
    /\ wait_attempts = 3 /\ reloads = 2
    /\ pages_processed >= 2
    /\ walk_result # Some(<<>>)

(***************************************************************************)
(* Claims about the persister                                              *)
(***************************************************************************)
\* the stored documents of one listing
DocsFor(coll, url) ==
    {coll[id] : id \in {i \in DOMAIN coll : coll[i].listing_url = url}}

\* the position of the last record of a listing among the records the
\* call of a step wrote
WrittenLast(i) ==
    /\ i \in 1..LastCall.applied
    /\ \A j \in (i + 1)..LastCall.applied :
         LastCall.batch[j].listing_url # LastCall.batch[i].listing_url

\* C5: the key of a stored document depends on the source URL alone, the
\* same in every batch, every run and every process, so the documents
\* written for one source URL are one document under one key.
C5_OneKeyPerUrl ==
    \A i, j \in DOMAIN store :
        store[i].listing_url = store[j].listing_url => i = j

\* C6: when two records with the same source URL are persisted one after
\* the other in replace mode, the collection holds exactly one document for
\* that URL, and it is the payload of the second record.
C6_ReplaceLeavesSecond ==
    [][(calls' = calls + 1 /\ overwrite_data) =>
        \A i \in 1..Len(LastCall.batch) :
            LET l == LastCall.batch[i]
                earlier ==
                    \/ /\ l.listing_url \in DOMAIN persisted
                       /\ persisted[l.listing_url] = "ReplaceOne"
                    \/ \E j \in 1..(i - 1) :
                         LastCall.batch[j].listing_url = l.listing_url
            IN (WrittenLast(i) /\ earlier) =>
                 DocsFor(store', l.listing_url) = {Payload(l, hash_seed, now)}
      ]_vars

\* C7: in merge mode, persisting a record whose source URL already has a
\* stored document sets every field of the payload on that document and
\* leaves its other fields as they were.
C7_MergeSetsPayload ==
    [][(calls' = calls + 1 /\ ~overwrite_data) =>
        \A i \in 1..Len(LastCall.batch) :
            LET l == LastCall.batch[i]
                listing_dict == Payload(l, hash_seed, now)
            IN WrittenLast(i) =>
                 \A id \in DOMAIN store :
                     store[id].listing_url = l.listing_url =>
                         store'[id] = listing_dict @@ store[id]
      ]_vars

(***************************************************************************)
(* Claims about the run                                                    *)
(***************************************************************************)
\* the records of the calls of save_to_mongodb_batch, in call order
RECURSIVE Flushed(_)
Flushed(fs) ==
    IF fs = <<>> THEN <<>>
    ELSE Flushed(SubSeq(fs, 1, Len(fs) - 1)) \o fs[Len(fs)].batch

Complete(l) == l.title # "" /\ l.address # ""

\* C3: a run does not lose previously collected work to a navigation or
\* rendering failure: every document that was stored before the failure is
\* still stored when scrape_all_listings returns, in merge mode and in
\* replace mode, also when the index navigation fails after the purge.
C3_NoWorkLost ==
    pc = "run_returned" => kept \subseteq DOMAIN store

\* C4: every record handed to save_to_mongodb_batch, and every record in
\* the batch, has a title and an address, whatever scrape_listing_details
\* returned for the URL.
C4_GateKeepsIncompleteOut ==
    /\ \A i \in 1..Len(flushes) :
         \A j \in 1..Len(flushes[i].batch) : Complete(flushes[i].batch[j])
    /\ \A j \in 1..Len(current_batch) : Complete(current_batch[j])

\* a record without a title was just turned away although it has an
\* address, in a run that has flushed a batch
C4_Witness ==
    /\ pc = "detail_loop"
    /\ listing # None
    /\ listing[1].title = "" /\ listing[1].address # ""
    /\ listing[1].listing_url = listing_urls[idx]
    /\ flushes # <<>>
    /\ \A i \in 1..Len(flushes) : listing[1] \notin Range(flushes[i].batch)

\* C8: when a run with the store connected has returned, the flushed
\* batches concatenated in order are the complete records in processing
\* order, no record is flushed twice, no flush is empty, every flush but the
\* last holds batch_size records and the last holds 1 to batch_size.
C8_BatchesPartitionPassed ==
    (pc = "run_returned" /\ save_to_db /\ mongodb_connected) =>
        /\ Flushed(flushes) = passed
        /\ NoDuplicates(Flushed(flushes))
        /\ \A i \in 1..Len(flushes) :
             /\ Len(flushes[i].batch) >= 1
             /\ Len(flushes[i].batch) <= batch_size
             /\ i < Len(flushes) => Len(flushes[i].batch) = batch_size

\* batch size 2 and three complete records: a full flush, then the rest
C8_Witness ==
    /\ pc = "run_returned"
    /\ save_to_db /\ batch_size = 2
    /\ Len(passed) = 3
    /\ Len(flushes) = 2
    /\ Len(flushes[1].batch) = 2 /\ Len(flushes[2].batch) = 1

\* C9: a failed bulk write does not abort the run: the records of the
\* failed batch are out of the in-memory batch and in no later flush, every
\* remaining URL is still processed, and every complete record is flushed.
C9_FailedFlushDropped ==
    /\ \A i \in 1..Len(flushes) :
         ~flushes[i].ok =>
            /\ \A j \in (i + 1)..Len(flushes) :
                 Range(flushes[i].batch) \cap Range(flushes[j].batch) = {}
            /\ pc \in {"detail_loop", "nav_attempt", "nav_title", "nav_backoff",
                       "nav_returned", "detail_gate", "final_flush"} =>
                 Range(flushes[i].batch) \cap Range(current_batch) = {}
    /\ (pc = "run_returned" /\ \E i \in 1..Len(flushes) : ~flushes[i].ok) =>
         /\ idx = Len(listing_urls)
         /\ Range(passed) = Range(Flushed(flushes))

\* the first bulk write failed after writing part of its batch, and the run
\* went on to flush the later records and returned them all
C9_Witness ==
    /\ pc = "run_returned"
    /\ Len(flushes) = 2
    /\ ~flushes[1].ok /\ flushes[1].applied = 1 /\ Len(flushes[1].batch) = 2
    /\ flushes[2].ok
    /\ idx = NumUrls
    /\ result = Some(passed)

\* the records of a sequence that belong to a listing
RecordsOf(records, url) ==
    {i \in 1..Len(records) : records[i].listing_url = url}

\* C13: a detail URL whose navigation fails after all attempts, or whose
\* scraping raises, is skipped and nothing else: no record of it is
\* buffered, returned, flushed or written, the batch still holds every
\* complete record that is not yet flushed, and the loop goes on to visit
\* every URL of the list.
C13_OnlyThatUrlSkipped ==
    skipped # {} =>
        /\ \A url \in skipped :
             /\ RecordsOf(current_batch, url) = {}
             /\ RecordsOf(all_listings, url) = {}
             /\ RecordsOf(Flushed(flushes), url) = {}
             /\ url \notin DOMAIN persisted
        /\ (save_to_db /\ pc \in {"detail_loop", "nav_attempt", "nav_title",
                                  "nav_backoff", "nav_returned", "detail_gate",
                                  "final_flush"}) =>
             Flushed(flushes) \o current_batch = passed
        /\ (pc \in {"final_flush", "closing", "run_returned", "run_raised"}
              /\ result # None) =>
             visited = listing_urls

\* the second of three URLs was skipped while the first record was
\* buffered; the third record filled the batch of two and both were flushed
C13_Witness ==
    /\ pc = "run_returned"
    /\ Len(listing_urls) = 3
    /\ skipped = {listing_urls[2]}
    /\ batch_size = 2
    /\ Len(flushes) = 1
    /\ flushes[1].ok
    /\ flushes[1].batch[1].listing_url = listing_urls[1]
    /\ flushes[1].batch[2].listing_url = listing_urls[3]
    /\ visited = listing_urls

\* C18: scrape_listing_details always returns a record to its caller, and a
\* failure while one field is being extracted costs that field only: the
\* fields extracted before the failure have their values in the returned
\* record.
C18_EarlierFieldsKept ==
    (pc = "detail_gate" /\ partial # None) =>
        /\ listing # None
        /\ \A f \in {"title", "address", "price", "bedroom", "bathroom"} :
             listing[1][f] = partial[1][f]


\* C19: within one agent's life the purge succeeds at most once; a call of
\* clear_existing_data made after a successful one deletes nothing and
\* returns false; the function is called only when overwrite_data and
\* save_to_db are both set, and deletes only when the store is connected.
C19_PurgeAtMostOnce ==
    [][/\ purges' <= 1
       /\ (data_cleared /\ clear_calls' # clear_calls)
            => /\ store' = store
               /\ clear_result' = Some(FALSE)
               /\ purges' = purges
       /\ (clear_calls' # clear_calls) => (overwrite_data /\ save_to_db)
       /\ (purges' # purges) => mongodb_connected]_vars

C19_Witness ==
    /\ data_cleared
    /\ purges = 1
    /\ clear_calls >= 2
    /\ clear_result = Some(FALSE)
    /\ store # <<>>


\* C20: whenever scrape_all_listings returns or lets an exception out, the
\* context, the browser and the playwright driver that were started are
\* closed; a resource whose own close() raised is left out of account.
C20_TornDownOnEveryExit ==
    pc \in {"run_returned", "run_raised"} =>
        session \ Range(close_raised) = {}


\* the phase of scrape_all_listings the run is in: 1 browser start, 2 purge,
\* 3 index navigation and pagination, 4 detail extraction, 5 final flush,
\* 6 teardown, 7 left
RunPhase ==
    CASE pc = "run_start" -> 1
      [] pc = "run_purge" -> 2
      [] pc = "run_page" -> 3
      [] pc \in {"nav_attempt", "nav_title", "nav_backoff", "nav_returned"} ->
            IF nav_target = "index" THEN 3 ELSE 4
      [] pc \in {"walk_loop", "walk_wait", "walk_reload", "walk_query",
                 "walk_link", "walk_next", "walk_click", "walk_returned"} -> 3
      [] pc \in {"detail_loop", "detail_gate"} -> 4
      [] pc = "final_flush" -> 5
      [] pc = "closing" -> 6
      [] OTHER -> 7

\* the step in which an interrupt ends the detail extraction
InterruptedExtracting == RunPhase = 4 /\ pc' = "closing" /\ result' = None

\* C21 as stated: an interrupt during detail extraction writes nothing of
\* the batch in hand, nothing is written during the teardown, and the
\* number of records the run has written is a multiple of batch_size.
C21_WrittenIsMultipleOfBatch ==
    [][/\ InterruptedExtracting =>
            /\ store' = store /\ persisted' = persisted
            /\ \A i \in 1..Len(current_batch) :
                 current_batch[i].listing_url \notin DOMAIN persisted'
            /\ Cardinality(DOMAIN persisted') % batch_size = 0
       /\ pc = "closing" => store' = store /\ persisted' = persisted]_vars

\* C21 amended: an interrupt during detail extraction writes nothing of the
\* batch in hand and nothing is written during the teardown; every record
\* the run has written belongs to a batch that reached batch_size, and the
\* number written is a multiple of batch_size when no bulk write failed.
C21_PartialBatchNotWritten ==
    [][/\ InterruptedExtracting =>
            /\ store' = store /\ persisted' = persisted
            /\ \A i \in 1..Len(current_batch) :
                 current_batch[i].listing_url \notin DOMAIN persisted'
            /\ \A i \in 1..Len(flushes') :
                 Len(flushes'[i].batch) = batch_size
            /\ \A url \in DOMAIN persisted' :
                 RecordsOf(Flushed(flushes'), url) # {}
            /\ (\A i \in 1..Len(flushes') : flushes'[i].ok) =>
                 Cardinality(DOMAIN persisted') = Len(flushes') * batch_size
       /\ pc = "closing" => store' = store /\ persisted' = persisted]_vars

\* three records passed the gate with batches of two: the first two were
\* flushed, the third was in hand when the interrupt came
C21_Witness ==
    /\ pc = "run_raised" /\ result = None /\ close_raised = None
    /\ batch_size = 2
    /\ Len(passed) = 3
    /\ Len(flushes) = 1 /\ flushes[1].ok
    /\ Cardinality(DOMAIN persisted) = 2
    /\ passed[3].listing_url \notin DOMAIN persisted


\* C22: a run goes through browser start, purge, index navigation and
\* pagination, detail extraction, final flush and teardown in this order and
\* never goes back to an earlier phase; the purge happens only in its phase,
\* before any navigation and any store write; the URL list is fixed before
\* the first detail page is loaded; the final flush starts only when every
\* detail URL has been visited.
C22_PhasesInOrder ==
    [][/\ RunPhase' >= RunPhase
       /\ (clear_calls' # clear_calls) =>
            /\ RunPhase = 2 /\ RunPhase' = 3
            /\ calls = 0 /\ visited = <<>> /\ listing_urls = <<>>
       /\ (calls' # calls) => RunPhase \in {4, 5}
       /\ (visited' # visited) =>
            /\ RunPhase = 4 /\ RunPhase' = 4
            /\ listing_urls' = listing_urls
            /\ walk_result = None
       /\ (RunPhase = 4 /\ RunPhase' \in {4, 5}) =>
            listing_urls' = listing_urls
       /\ pc' = "final_flush" => visited' = listing_urls'
       /\ (RunPhase = 5 /\ calls' # calls) => visited = listing_urls]_vars

\* a replace-mode run that purged, visited all three URLs, flushed one full
\* batch in the loop and the rest in the final flush, and tore down
C22_Witness ==
    /\ pc = "run_returned"
    /\ purges = 1
    /\ Len(visited) = 3
    /\ batch_size = 2
    /\ Len(flushes) = 2
    /\ Len(flushes[2].batch) = 1
    /\ session = {}


UrlsOf(records) == [i \in 1..Len(records) |-> records[i].listing_url]
PositionIn(urls, url) == CHOOSE i \in 1..Len(urls) : urls[i] = url
KeepsOrderOf(part, whole) ==
    /\ Range(part) \subseteq Range(whole)
    /\ \A i, j \in 1..Len(part) :
         i < j => PositionIn(whole, part[i]) < PositionIn(whole, part[j])

\* C23: the detail loop takes the URLs in the order of the list the walk
\* returned; the records that pass the gate, the batches handed to the
\* store and the returned list keep that order; and a bulk write applies
\* its operations in the order of its batch, so that a write that failed
\* after k operations has written the first k records of the batch.
OrderKeptSoFar ==
    /\ RunPhase \in {4, 5} =>
         /\ visited = SubSeq(listing_urls, 1, idx)
         /\ all_listings = passed
         /\ KeepsOrderOf(UrlsOf(passed), visited)
         /\ KeepsOrderOf(UrlsOf(Flushed(flushes)), UrlsOf(passed))
    /\ (pc = "closing" /\ result # None /\ result[1] # <<>>) =>
         result[1] = passed
    /\ \A i \in 1..Len(flushes) : \A j \in 1..Len(flushes[i].batch) :
         (j <= flushes[i].applied) <=>
             (flushes[i].batch[j].listing_url \in DOMAIN persisted)

C23_OrderKept ==
    [][/\ (pc = "walk_returned" /\ pc' = "detail_loop") =>
            /\ Len(listing_urls') <= Len(walk_result[1])
            /\ listing_urls' = SubSeq(walk_result[1], 1, Len(listing_urls'))
       /\ OrderKeptSoFar']_vars

\* the run returned its three records in the order of the URL list; the
\* first bulk write failed after writing the first record of its batch
C23_Witness ==
    /\ pc = "run_returned"
    /\ Len(visited) = 3
    /\ Len(result[1]) = 3
    /\ UrlsOf(result[1]) = visited
    /\ batch_size = 2
    /\ Len(flushes) = 2
    /\ ~flushes[1].ok /\ flushes[1].applied = 1
    /\ flushes[1].batch[1].listing_url \in DOMAIN persisted


\* C24: whenever main finishes after a run that got as far as the detail
\* pages, generate_summary_report has been called and its result emitted,
\* also when URLs were skipped, flushes failed, no listing was valid or the
\* extraction was interrupted.
C24_AlwaysSummary ==
    (pc = "main_done" /\ visited # <<>>) => summary # None

\* C25: a run that aborted because the browser failed to start is never
\* reported to the operator the way a run that found zero listings is
\* ("No listings found").
C25_ZeroDistinctFromFatal ==
    (pc = "main_done" /\ exit_path = "browser_start") =>
        report # "no_listings"

\* C26: when saving was requested and the store connection failed in the
\* constructor, the run performs no index navigation, no pagination and no
\* detail extraction.
C26_NoStoreHardStop ==
    (save_requested /\ ~mongodb_connected) => RunPhase \notin {3, 4, 5}


\* the digits of the leftmost place in the text where digits are followed
\* by a word beginning with "ba"
BathDigits(text) ==
    {text[i] : i \in {k \in 1..(Len(text) - 1) :
        /\ text[k] \in Digits
        /\ "ba" \in Beginnings(text[k + 1])
        /\ \A j \in 1..(k - 1) :
             ~(text[j] \in Digits /\ "ba" \in Beginnings(text[j + 1]))}}

\* C27: for a text with "studio" in any letter case
\* extract_bed_bath_from_text returns bedroom 0, whatever numeric bedroom
\* pattern the text holds; the bathroom is the number in front of the first
\* bath word, or none when there is no such number, as for any other text.
C27_StudioIsZeroBedrooms ==
    fields # None =>
        LET r == fields[1].bed_bath
        IN /\ WordIn("studio", lower(page_text)) => r.bedroom = Some(0)
           /\ IF BathDigits(lower(page_text)) = {}
              THEN r.bathroom = None
              ELSE /\ r.bathroom # None
                   /\ r.bathroom[1].tenths = 0
                   /\ \A d \in BathDigits(lower(page_text)) :
                        r.bathroom[1].whole = int(d)

\* "STUDIO 2 bed": the numeric pattern matches and the bedroom is 0
C27_Witness ==
    /\ fields # None
    /\ page_text = <<"STUDIO", "2", "bed">>
    /\ FirstMatch(bed_patterns, lower(page_text), 1) = Some("2")
    /\ fields[1].bed_bath.bedroom = Some(0)


\* the places of the text covered by an occurrence of one of the phrases
CoveredBy(phrases, text) ==
    {i \in 1..Len(text) :
        \E k \in 1..Len(phrases) : \E at \in 0..(Len(text) - Len(phrases[k])) :
            /\ SubSeq(text, at + 1, at + Len(phrases[k])) = phrases[k]
            /\ i \in (at + 1)..(at + Len(phrases[k]))}

\* the text mentions pets, and only inside negative phrases
OnlyNegativeMention(text) ==
    /\ \E i \in 1..Len(text) : "pet" \in Beginnings(text[i])
    /\ \A i \in 1..Len(text) :
         "pet" \in Beginnings(text[i]) => i \in CoveredBy(pet_negative, text)

\* C28: for a page text whose only mention of pets is a negative phrase
\* such as "no pets allowed", check_pet_friendly returns "No".
C28_NegativePhraseIsNo ==
    (pc = "extracted" /\ OnlyNegativeMention(lower(page_text))) =>
        fields[1].pet_friendly = Some("No")


\* C30: the amenities lists appliances, utilities_included and
\* other_amenities of a listing contain no string twice.
C30_AmenitiesHaveNoDuplicates ==
    fields # None =>
        /\ NoDuplicates(fields[1].amenities.appliances)
        /\ NoDuplicates(fields[1].amenities.utilities_included)
        /\ NoDuplicates(fields[1].amenities.other_amenities)

\* the utility pattern matched twice in the page text and the listing
\* holds the match once
C30_Witness ==
    /\ pc = "extract_pet"
    /\ Len(findall("heat (gas)", page_text)) = 2
    /\ fields[1].amenities.utilities_included = <<"heat (gas)">>


\* C29: any number of MongoDBClient constructions create at most one
\* underlying connection, which every instance shares; a construction that
\* fails before the connection exists leaves the shared connection unset,
\* so that a later construction tries to create it again.
C29_OneSharedConnection ==
    /\ [](/\ mongo.connections <= 1
          /\ mongo.client = None <=> mongo.connections = 0
          /\ \A i \in 1..Len(mongo.instances) :
               /\ mongo.client # None
               /\ mongo.instances[i].client = mongo.client[1])
    /\ [][(/\ mongo.client = None
           /\ mongo'.failures > mongo.failures
           /\ mongo'.connections = mongo.connections)
          => mongo'.client = None]_vars

\* the first call of pymongo.MongoClient raised, a later construction
\* created the connection, and two instances share it
C29_Witness ==
    /\ mongo.tries = 2
    /\ mongo.connections = 1
    /\ Len(mongo.instances) >= 2
    /\ mongo.instances[1].database_name # mongo.instances[2].database_name


\* the first n elements of the list, or all of it when it has fewer
FirstN(urls, n) == [i \in 1..(IF n < Len(urls) THEN n ELSE Len(urls)) |-> urls[i]]

\* the URLs the run is to visit, given the list the walk returned
ToVisit(urls) ==
    IF max_listings # None /\ max_listings[1] > 0
    THEN FirstN(urls, max_listings[1])
    ELSE urls

\* the detail pages visited so far are the first idx URLs of the list, and
\* all of it once the loop has ended
VisitedAsListed ==
    /\ pc \in {"detail_loop", "detail_gate", "final_flush"}
         => visited = FirstN(listing_urls, idx)
    /\ (pc = "final_flush" \/ exit_path \in {"completed", "page_close"})
         => visited = listing_urls

\* C31: with max_listings a positive n the run visits exactly the first
\* min(n, number discovered) URLs in discovery order and no other detail
\* page; with max_listings None or 0 it visits every discovered URL.
C31_VisitsFirstN ==
    [][/\ (pc = "walk_returned" /\ pc' = "detail_loop")
            => listing_urls' = ToVisit(walk_result[1])
       /\ (pc # "walk_returned" /\ pc' # "closing")
            => listing_urls' = listing_urls
       /\ pc' = "closing" => listing_urls' \in {listing_urls, <<>>}
       /\ VisitedAsListed']_vars

\* a run capped at two listings has visited the first two discovered and
\* completed with both records
C31_Witness ==
    /\ max_listings = Some(2)
    /\ exit_path = "completed"
    /\ visited = <<1, 2>>
    /\ Len(result[1]) = 2


\* the fields of ListingData and of a payload, by name
ListingDataFields ==
    {"title", "address", "price", "bedroom", "bathroom", "description",
     "rental_terms", "amenities", "pet_friendly", "listing_url", "scraped_at"}
PayloadFields == ListingDataFields \cup {"_id", "source", "last_updated"}

\* C32: every payload built by save_to_mongodb_batch has the eleven
\* ListingData fields and _id, source and last_updated; so a merge-mode
\* write sets every one of them on an existing document to the new
\* record's value, defaults included, and only the stored fields outside
\* that set survive.
C32_MergeSetsEverySchemaField ==
    [][calls' = calls + 1 =>
        \A i \in 1..Len(LastCall.batch) :
            LET listing_dict == Payload(LastCall.batch[i], hash_seed, now)
                id == listing_dict._id
            IN /\ DOMAIN listing_dict = PayloadFields
               /\ (~overwrite_data /\ WrittenLast(i) /\ id \in DOMAIN store) =>
                    /\ DOMAIN store'[id] = DOMAIN store[id] \cup PayloadFields
                    /\ \A f \in PayloadFields : store'[id][f] = listing_dict[f]
                    /\ \A g \in DOMAIN store[id] \ PayloadFields :
                         store'[id][g] = store[id][g]
      ]_vars

\* a merge-mode write of a record without a price has put the default on
\* the annotated document of the earlier run
C32_Witness ==
    /\ ~overwrite_data
    /\ calls > 0
    /\ \E id \in DOMAIN store :
         /\ "notes" \in DOMAIN store[id]
         /\ store[id].listing_url = 1
         /\ store[id].price = None
         /\ store[id].last_updated = now


\* the step is a call of save_to_mongodb_batch that wrote the document id
WrittenBy(id) ==
    /\ calls' = calls + 1
    /\ \E i \in 1..LastCall.applied :
         Payload(LastCall.batch[i], hash_seed, now)._id = id

\* C33: a successful purge sets data_cleared and nothing resets it: a later
\* purge step of the same agent in replace mode (a second run of
\* scrape_all_listings) purges nothing, and every document stored before
\* it stays in the store, changed only by a write of its own listing.
C33_SecondRunDoesNotPurge ==
    [][/\ purges' # purges => data_cleared'
       /\ data_cleared =>
            /\ data_cleared'
            /\ purges' = purges
            /\ \A id \in DOMAIN store :
                 /\ id \in DOMAIN store'
                 /\ store'[id] # store[id] => WrittenBy(id)]_vars

\* the agent purged once, was asked to purge twice more, and the store
\* holds the documents of two listings saved in replace mode
C33_Witness ==
    /\ overwrite_data /\ data_cleared
    /\ purges = 1
    /\ clear_calls = 3
    /\ clear_result = Some(FALSE)
    /\ Cardinality(DOMAIN store) = 2


\* the purge step of this run was taken and clear_existing_data returned
\* False: in a run of a new, connected agent, count or delete raised
PurgeFailed ==
    /\ overwrite_data /\ save_to_db
    /\ clear_calls = 1
    /\ clear_result = Some(FALSE)

\* every write of the run so far was a ReplaceOne
WritesReplace == \A url \in DOMAIN persisted : persisted[url] = "ReplaceOne"

\* C34 as claimed: when the pre-run purge fails in replace mode, the run
\* goes on to crawl and to write in replace mode, and every document
\* stored before the run that is not re-scraped is still in the store.
C34_FailedPurgeKeepsAll ==
    PurgeFailed =>
        /\ WritesReplace
        /\ \A id \in ever :
             /\ id \in DOMAIN store
             /\ store[id].listing_url \notin DOMAIN persisted
                  => store[id].last_updated = 0

\* C34 as amended: when the pre-run purge fails in replace mode, the run
\* goes on to crawl and to write in replace mode, and every document that
\* the failed purge left in the store and that is not re-scraped stays in
\* the store as it was.
C34_FailedPurgeKeepsWhatIsLeft ==
    [][/\ (pc = "run_purge" /\ PurgeFailed') => pc' = "run_page"
       /\ PurgeFailed' => WritesReplace'
       /\ (PurgeFailed /\ PurgeFailed') =>
            \A id \in DOMAIN store :
                /\ id \in DOMAIN store'
                /\ store'[id] # store[id] => WrittenBy(id)]_vars

\* after a failed purge the run completed, and the store holds a document
\* of the earlier run next to one written by this run
C34_Witness ==
    /\ PurgeFailed
    /\ exit_path = "completed"
    /\ \E old, new \in DOMAIN store :
         /\ store[old].last_updated = 0
         /\ store[new].last_updated = now
         /\ persisted = (store[new].listing_url :> "ReplaceOne")


\* the program is in the loop over the detail URLs, between two records
BetweenRecords ==
    pc \in {"detail_loop", "nav_attempt", "nav_title", "nav_backoff",
            "nav_returned", "final_flush"} /\ RunPhase = 4

\* the last n elements of a list
LastN(list, n) == SubSeq(list, Len(list) - n + 1, Len(list))

\* C35: when the store is not connected or save_to_db is false, a run
\* issues no store operation (no purge, no bulk write); the in-memory batch
\* is still emptied each time it reaches batch_size, and the run still
\* returns every record that passed the gate.
C35_NoStoreOperationWhenNotSaving ==
    (~mongodb_connected \/ ~save_to_db) =>
        /\ clear_calls = 0 /\ purges = 0
        /\ calls = 0 /\ flushes = <<>>
        /\ store = <<>> /\ ever = {}
        /\ Len(current_batch) <= batch_size
        /\ BetweenRecords =>
             /\ Len(current_batch) = Len(passed) % batch_size
             /\ current_batch = LastN(passed, Len(current_batch))
             /\ all_listings = passed
        /\ exit_path = "completed" => result = Some(passed)

\* a run that does not save has completed with three records at batch
\* size 2: the batch was emptied once and holds the third record
C35_Witness ==
    /\ ~save_to_db
    /\ batch_size = 2
    /\ exit_path = "completed"
    /\ Len(result[1]) = 3
    /\ current_batch = <<result[1][3]>>
    /\ store = <<>>

\* the records of a call that are in no stored document
NotStored(call) ==
    {l \in Range(call.batch) :
        \A id \in DOMAIN store : store[id].listing_url # l.listing_url}

\* C36: on normal completion scrape_all_listings returns exactly the
\* records that passed the gate, in order, whatever the flushes returned:
\* the records of a batch whose write failed are in the returned list.
C36_ReturnsAllPassed ==
    exit_path = "completed" =>
        /\ result = Some(passed)
        /\ \A i \in 1..Len(flushes) : Range(flushes[i].batch) \subseteq Range(result[1])

\* the run completed; a bulk write failed before writing anything, and a
\* record of its batch is in the returned list and not in the store
C36_Witness ==
    /\ exit_path = "completed"
    /\ pc = "run_returned"
    /\ \E i \in 1..Len(flushes) :
         /\ ~flushes[i].ok
         /\ \E l \in NotStored(flushes[i]) : l \in Range(result[1])


\* every stored document has its rent under price and no field rent_price
RentUnderPrice ==
    \A id \in DOMAIN store :
        "price" \in DOMAIN store[id] /\ "rent_price" \notin DOMAIN store[id]

\* C37 as claimed: every document the persister wrote carries its rent
\* under price and has no rent_price, and build_query bounds rent_price;
\* so for any parsed message with a price the query matches no document
\* the persister wrote.
C37_PriceQueryMatchesNothing ==
    /\ RentUnderPrice
    /\ (pc = "query_done" /\ Truthy(parsed_message[1].price)) => results = {}

\* C37 as amended: the same, for any parsed message with a price that
\* int() accepts.
C37_IntPriceQueryMatchesNothing ==
    /\ RentUnderPrice
    /\ (pc \in {"query_find", "query_done"}
        /\ Truthy(parsed_message[1].price)
        /\ IntOf(parsed_message[1].price) # None) =>
          /\ query[1].field = "rent_price"
          /\ query[1].lte = IntOf(parsed_message[1].price)
          /\ pc = "query_done" => results = {}

\* a query for at most 2500 on a collection that holds a listing at 1950
\* has found nothing
C37_Witness ==
    /\ pc = "query_done"
    /\ parsed_message[1].location = ""
    /\ parsed_message[1].price = PriceValue("str", "2500", 0)
    /\ \E id \in DOMAIN store : store[id].price = Some(1950)
    /\ results = {}

====
